---- MODULE Spec2Model ----
(***************************************************************************)
(* GetInterviews: the session store (services/sessionService), the modular *)
(* API (routes/api.ts with services/aiService and services/resumeService), *)
(* the stand-alone analyze-match server with its result normalization, and *)
(* the monolithic server of index.ts.                                      *)
(*                                                                         *)
(* Three specifications share the variables:                               *)
(*   Spec         sessionService + routes/api.ts                           *)
(*   SpecAnalyze  the stand-alone POST /api/analyze-match and its          *)
(*                normalization of the parsed completion                   *)
(*   SpecIndex    index.ts: the in-memory sessions table and the job       *)
(*                tracker                                                  *)
(* A handler is one action per stretch of code between two awaits: Node    *)
(* runs each stretch to completion before any other callback.  A request   *)
(* occupies a slot from its arrival to its response; the step that sends   *)
(* the response frees the slot and leaves the answered request in resp.    *)
(***************************************************************************)
EXTENDS Integers, Sequences, FiniteSets, TLC

VARIABLES
  sessions,    \* the session table
  credential,  \* whether a provider key is configured (read-only)
  reqs,        \* the requests in flight, by slot
  lastOp,      \* the session-service operation the last step performed
  resp,        \* the response the last step sent, with the request it answers
  acked        \* the save-job requests answered with success (history)

vars == <<sessions, credential, reqs, lastOp, resp, acked>>

\* What the provider key and the history are to a step that touches neither.
config == <<credential, acked>>

(***************************************************************************)
(* Bounds of the model.                                                    *)
(***************************************************************************)
\* Longest resumeRewrites list the provider returns.
MaxRewrites == 7

(***************************************************************************)
(* Program constants.                                                      *)
(***************************************************************************)
\* jobDescription.length < 50 is rejected.
MinJobDescriptionLength == 50
\* resumeText.trim().length < 50 is rejected.
MinResumeLength == 50
\* .slice(0, 3)
RewriteLimit == 3
\* Math.min(100, ...)
ScoreMax == 100
\* Math.max(0, ...)
ScoreMin == 0
\* parseInt(analysis.overallScore) || 50
DefaultOverallScore == 50
\* parseInt(analysis.atsAnalysis?.score) || 50
DefaultAtsScore == 50
\* parseInt(analysis.interviewProbability?.percentage) || 30
DefaultInterviewPercentage == 30

(***************************************************************************)
(* JavaScript values.  A value is a record tagged by t; a string is the    *)
(* sequence of its characters (a run of characters that are neither digit, *)
(* sign nor space may be written as one element, such as <<"GOOD_MATCH">>);*)
(* a number is kept in tenths (x10), which covers the integers and one     *)
(* decimal place, or is NaN.                                               *)
(***************************************************************************)
Undefined == [t |-> "undefined"]
Null == [t |-> "null"]
JsBool(b) == [t |-> "bool", b |-> b]
JsNum(n) == [t |-> "num", x10 |-> 10 * n, nan |-> FALSE]
JsTenths(n) == [t |-> "num", x10 |-> n, nan |-> FALSE]
NaN == [t |-> "num", x10 |-> 0, nan |-> TRUE]
JsStr(s) == [t |-> "str", s |-> s]
JsList(l) == [t |-> "list", l |-> l]
JsObj(o) == [t |-> "obj", o |-> o]

\* ToBoolean: undefined, null, false, 0, NaN and "" are falsy.
Truthy(v) ==
  CASE v.t = "undefined" -> FALSE
    [] v.t = "null" -> FALSE
    [] v.t = "bool" -> v.b
    [] v.t = "num" -> ~v.nan /\ v.x10 # 0
    [] v.t = "str" -> v.s # <<>>
    [] OTHER -> TRUE

\* a || b
Or(a, b) == IF Truthy(a) THEN a ELSE b

\* a ?? b without the fallback.
NullishFirst(a, b) == a

\* a ?? b
Nullish(a, b) == IF a.t \in {"undefined", "null"} THEN b ELSE a

\* v?.f for the field names of the schema: undefined on undefined and null,
\* the property of an object, undefined on a primitive or an array.
OptGet(v, f) ==
  IF v.t = "obj" /\ f \in DOMAIN v.o THEN v.o[f] ELSE Undefined

Digits == <<"0", "1", "2", "3", "4", "5", "6", "7", "8", "9">>

DigitChars == {Digits[i] : i \in 1..10}

DigitVal(c) == (CHOOSE i \in 1..10 : Digits[i] = c) - 1

Abs(n) == IF n < 0 THEN -n ELSE n

\* The decimal digits of a natural number.
RECURSIVE NatToString(_)
NatToString(n) ==
  IF n < 10 THEN <<Digits[n + 1]>>
  ELSE NatToString(n \div 10) \o <<Digits[(n % 10) + 1]>>

\* Number.prototype.toString of a number kept in tenths.
NumToString(v) ==
  IF v.nan THEN <<"N", "a", "N">>
  ELSE LET a == Abs(v.x10)
           sign == IF v.x10 < 0 THEN <<"-">> ELSE <<>>
           frac == IF a % 10 = 0 THEN <<>> ELSE <<".", Digits[(a % 10) + 1]>>
       IN sign \o NatToString(a \div 10) \o frac

\* ToString of an array element: null and undefined join as "".
ElemToString(v) ==
  CASE v.t = "str" -> v.s
    [] v.t = "num" -> NumToString(v)
    [] v.t = "bool" -> IF v.b THEN <<"t", "r", "u", "e">> ELSE <<"f", "a", "l", "s", "e">>
    [] v.t = "obj" -> <<"[", "o", "b", "j", "e", "c", "t", " ", "O", "b", "j", "e", "c", "t", "]">>
    [] OTHER -> <<>>

RECURSIVE JoinList(_)
JoinList(l) ==
  IF l = <<>> THEN <<>>
  ELSE IF Len(l) = 1 THEN ElemToString(l[1])
  ELSE ElemToString(l[1]) \o <<",">> \o JoinList(Tail(l))

\* ToString, as parseInt applies it to its argument.
JsToString(v) ==
  CASE v.t = "undefined" -> <<"u", "n", "d", "e", "f", "i", "n", "e", "d">>
    [] v.t = "null" -> <<"n", "u", "l", "l">>
    [] v.t = "list" -> JoinList(v.l)
    [] OTHER -> ElemToString(v)

\* Leading white space is skipped.
RECURSIVE SkipSpaces(_)
SkipSpaces(s) ==
  IF s # <<>> /\ Head(s) = " " THEN SkipSpaces(Tail(s)) ELSE s

\* The value of the longest prefix of decimal digits, acc so far.
RECURSIVE DigitsValue(_, _)
DigitsValue(s, acc) ==
  IF s # <<>> /\ Head(s) \in DigitChars
  THEN DigitsValue(Tail(s), 10 * acc + DigitVal(Head(s)))
  ELSE acc

\* parseInt(v): ToString, skip white space, an optional sign, then the longest
\* prefix of decimal digits; NaN when there is no digit.  (-0 is kept as 0: both
\* are falsy and print the same.)
parseInt(v) ==
  LET s == SkipSpaces(JsToString(v))
      neg == s # <<>> /\ Head(s) = "-"
      body == IF s # <<>> /\ Head(s) \in {"-", "+"} THEN Tail(s) ELSE s
  IN IF body = <<>> \/ Head(body) \notin DigitChars THEN NaN
     ELSE JsNum((IF neg THEN -1 ELSE 1) * DigitsValue(body, 0))

\* Math.max(a, b) and Math.min(a, b) of a number a and a number value b.
MathMax(a, b) == IF b.nan THEN NaN ELSE IF b.x10 > 10 * a THEN b ELSE JsNum(a)

MathMin(a, b) == IF b.nan THEN NaN ELSE IF b.x10 < 10 * a THEN b ELSE JsNum(a)

(***************************************************************************)
(* services/sessionService: the in-memory table.  The table is a function  *)
(* whose domain is the set of stored ids; a session object is a function   *)
(* from its own field names to values.                                     *)
(***************************************************************************)
SessionIds == {"s1", "s2"}

\* { ...a, ...b }
\* Spread that keeps only the second object.
SpreadReplace(a, b) == b

Spread(a, b) ==
  [f \in (DOMAIN a) \cup (DOMAIN b) |-> IF f \in DOMAIN b THEN b[f] ELSE a[f]]

\* {}
EmptyObject == [f \in {} |-> "none"]

\* get: (id) => sessions[id]
Has(tbl, id) == id \in DOMAIN tbl

\* set that replaces the whole table by the one session.
StoreSetAlone(tbl, id, data) == [i \in {id} |-> data]

\* set: sessions[id] = data
StoreSet(tbl, id, data) ==
  [i \in (DOMAIN tbl) \cup {id} |-> IF i = id THEN data ELSE tbl[i]]

\* update that leaves an id without a session alone.
StoreUpdateIfPresent(tbl, id, data) ==
  IF Has(tbl, id)
  THEN [i \in DOMAIN tbl |-> IF i = id THEN Spread(tbl[i], data) ELSE tbl[i]]
  ELSE tbl

\* update: if (!sessions[id]) sessions[id] = {}; sessions[id] = {...sessions[id], ...data}
StoreUpdate(tbl, id, data) ==
  LET cur == IF Has(tbl, id) THEN tbl[id] ELSE EmptyObject
  IN [i \in (DOMAIN tbl) \cup {id} |-> IF i = id THEN Spread(cur, data) ELSE tbl[i]]

\* get: sessions[id], undefined when nothing is stored under id
StoreGet(tbl, id) == IF Has(tbl, id) THEN tbl[id] ELSE Undefined

\* delete that empties the whole table.
StoreDeleteAll(tbl, id) == [i \in {} |-> tbl[i]]

\* delete: delete sessions[id]
StoreDelete(tbl, id) == [i \in (DOMAIN tbl) \ {id} |-> tbl[i]]

(***************************************************************************)
(* The result normalization of the stand-alone POST /api/analyze-match.    *)
(* analysis is what JSON.parse returned: always an object, because the     *)
(* text handed to JSON.parse starts with "{".                              *)
(***************************************************************************)
\* slice with the end index off by one.
SliceSeqOffByOne(l, n) == SubSeq(l, 1, IF Len(l) < n + 1 THEN Len(l) ELSE n + 1)

\* Array.prototype.slice(0, n) / String.prototype.slice(0, n)
SliceSeq(l, n) == SubSeq(l, 1, IF Len(l) < n THEN Len(l) ELSE n)

\* (v).slice(0, n): arrays and strings have slice; on any other value the call
\* throws a TypeError.
HasSlice(v) == v.t \in {"list", "str"}

Slice(v, n) ==
  IF v.t = "list" THEN JsList(SliceSeq(v.l, n)) ELSE JsStr(SliceSeq(v.s, n))

\* The clamp without its Math.min.
ClampScoreNoMin(v, dflt) ==
  MathMax(ScoreMin, Or(parseInt(v), JsNum(dflt)))

\* Math.min(100, Math.max(0, parseInt(v) || dflt))
ClampScore(v, dflt) ==
  MathMin(ScoreMax, MathMax(ScoreMin, Or(parseInt(v), JsNum(dflt))))

EmptyString == JsStr(<<>>)

EmptyList == JsList(<<>>)

\* The value .slice(0, 3) is called on.
RewritesSource(analysis) == Or(OptGet(analysis, "resumeRewrites"), EmptyList)

\* (analysis.resumeRewrites || []).slice(0, 3)
NormalizeRewrites(analysis) == Slice(RewritesSource(analysis), RewriteLimit)

\* Building result throws exactly when .slice is not a function.
NormalizeThrows(analysis) == ~HasSlice(RewritesSource(analysis))

Normalize(analysis) ==
  LET sixSecondScan == OptGet(analysis, "sixSecondScan")
      atsAnalysis == OptGet(analysis, "atsAnalysis")
      qualificationGap == OptGet(analysis, "qualificationGap")
      competitorAnalysis == OptGet(analysis, "competitorAnalysis")
      applicationStrategy == OptGet(analysis, "applicationStrategy")
      prioritizedActionPlan == OptGet(analysis, "prioritizedActionPlan")
      interviewProbability == OptGet(analysis, "interviewProbability")
      bottomLine == OptGet(analysis, "bottomLine")
  IN JsObj([
    overallScore |-> ClampScore(OptGet(analysis, "overallScore"), DefaultOverallScore),
    verdict |-> Or(OptGet(analysis, "verdict"), JsStr(<<"Analysis Complete">>)),
    summary |-> Or(OptGet(analysis, "summary"), EmptyString),
    sixSecondScan |-> JsObj([
      firstImpression |-> Or(OptGet(sixSecondScan, "firstImpression"), EmptyString),
      standoutElements |-> Or(OptGet(sixSecondScan, "standoutElements"), EmptyList),
      immediateRedFlags |-> Or(OptGet(sixSecondScan, "immediateRedFlags"), EmptyList),
      wouldReadMore |-> Nullish(OptGet(sixSecondScan, "wouldReadMore"), Null),
      whyOrWhyNot |-> Or(OptGet(sixSecondScan, "whyOrWhyNot"), EmptyString)]),
    atsAnalysis |-> JsObj([
      score |-> ClampScore(OptGet(atsAnalysis, "score"), DefaultAtsScore),
      likelyToPass |-> Nullish(OptGet(atsAnalysis, "likelyToPass"), Null),
      keywordsFound |-> Or(OptGet(atsAnalysis, "keywordsFound"), EmptyList),
      criticalKeywordsMissing |-> Or(OptGet(atsAnalysis, "criticalKeywordsMissing"), EmptyList),
      suggestionToPassATS |-> Or(OptGet(atsAnalysis, "suggestionToPassATS"), EmptyString)]),
    qualificationGap |-> JsObj([
      experienceRequired |-> Or(OptGet(qualificationGap, "experienceRequired"), EmptyString),
      experienceYouHave |-> Or(OptGet(qualificationGap, "experienceYouHave"), EmptyString),
      gapAssessment |-> Or(OptGet(qualificationGap, "gapAssessment"), JsStr(<<"Unknown">>)),
      yearsGap |-> Or(OptGet(qualificationGap, "yearsGap"), EmptyString),
      canYouCloseGap |-> Nullish(OptGet(qualificationGap, "canYouCloseGap"), Null),
      howToCloseGap |-> Or(OptGet(qualificationGap, "howToCloseGap"), EmptyString)]),
    dealbreakers |-> Or(OptGet(analysis, "dealbreakers"), EmptyList),
    strengths |-> Or(OptGet(analysis, "strengths"), EmptyList),
    hiddenRedFlags |-> Or(OptGet(analysis, "hiddenRedFlags"), EmptyList),
    competitorAnalysis |-> JsObj([
      typicalWinningCandidate |-> Or(OptGet(competitorAnalysis, "typicalWinningCandidate"), EmptyString),
      howYouCompare |-> Or(OptGet(competitorAnalysis, "howYouCompare"), EmptyString),
      yourCompetitiveAdvantage |-> Or(OptGet(competitorAnalysis, "yourCompetitiveAdvantage"), EmptyString),
      yourBiggestDisadvantage |-> Or(OptGet(competitorAnalysis, "yourBiggestDisadvantage"), EmptyString)]),
    applicationStrategy |-> JsObj([
      shouldYouApply |-> Nullish(OptGet(applicationStrategy, "shouldYouApply"), JsBool(TRUE)),
      confidenceLevel |-> Or(OptGet(applicationStrategy, "confidenceLevel"), JsStr(<<"MEDIUM">>)),
      bestApproach |-> Or(OptGet(applicationStrategy, "bestApproach"), JsStr(<<"APPLY_NOW">>)),
      timeWorthInvesting |-> Or(OptGet(applicationStrategy, "timeWorthInvesting"), EmptyString),
      alternativeStrategy |-> Or(OptGet(applicationStrategy, "alternativeStrategy"), EmptyString)]),
    resumeRewrites |-> NormalizeRewrites(analysis),
    prioritizedActionPlan |-> JsObj([
      before_applying |-> Or(OptGet(prioritizedActionPlan, "before_applying"), EmptyList),
      quick_wins |-> Or(OptGet(prioritizedActionPlan, "quick_wins"), EmptyList),
      worth_the_effort |-> Or(OptGet(prioritizedActionPlan, "worth_the_effort"), EmptyList),
      long_term |-> Or(OptGet(prioritizedActionPlan, "long_term"), EmptyList)]),
    interviewProbability |-> JsObj([
      percentage |-> ClampScore(OptGet(interviewProbability, "percentage"), DefaultInterviewPercentage),
      reasoning |-> Or(OptGet(interviewProbability, "reasoning"), EmptyString),
      whatWouldIncreaseOdds |-> Or(OptGet(interviewProbability, "whatWouldIncreaseOdds"), EmptyString)]),
    bottomLine |-> JsObj([
      honestAssessment |-> Or(OptGet(bottomLine, "honestAssessment"), EmptyString),
      oneThingToFix |-> Or(OptGet(bottomLine, "oneThingToFix"), EmptyString),
      encouragement |-> Or(OptGet(bottomLine, "encouragement"), EmptyString)])])

(***************************************************************************)
(* What the provider can return.  A completion text is a sequence of       *)
(* tokens: "{" and "}" are the braces, "members" is a well-formed member   *)
(* list whose value is the reply's obj, "junk" is text that is not JSON    *)
(* (an unquoted key), "prose" is any other run of characters.              *)
(***************************************************************************)
\* The values tried for a score field.
ScoreValues ==
  { Undefined, Null, JsBool(TRUE), JsBool(FALSE),
    JsNum(-20), JsNum(-1), JsNum(0), JsNum(1), JsNum(73), JsNum(100),
    JsNum(101), JsNum(137), JsTenths(5), JsTenths(-5), JsTenths(997),
    JsTenths(1004),
    JsStr(<<>>), JsStr(<<"8", "5">>), JsStr(<<"8", "5", "%">>),
    JsStr(<<" ", "4", "2">>), JsStr(<<"-", "7">>), JsStr(<<"+", "9">>),
    JsStr(<<"1", "5", "0">>), JsStr(<<"0">>), JsStr(<<"high">>),
    JsStr(<<"-">>), JsList(<<>>), JsList(<<JsNum(64)>>),
    JsList(<<JsNum(250), JsNum(1)>>), JsObj(<<>>) }

\* The i-th entry of a resumeRewrites list.
RewriteEntry(i) ==
  JsObj([section |-> JsStr(<<"section">> \o NatToString(i)),
         currentText |-> JsStr(<<"weak">>),
         rewrittenText |-> JsStr(<<"better">>),
         whyBetter |-> JsStr(<<"reason">>)])

RewriteList(n) == JsList([i \in 1..n |-> RewriteEntry(i)])

\* A rewrite list in another order than 1..n.
ReversedRewriteList(n) == JsList([i \in 1..n |-> RewriteEntry(n + 1 - i)])

RewriteLists ==
  {RewriteList(n) : n \in 0..MaxRewrites} \cup
  {ReversedRewriteList(n) : n \in 2..MaxRewrites}

\* Values of resumeRewrites that are not lists.
NonListValues ==
  { Undefined, Null, JsBool(TRUE), JsBool(FALSE), JsNum(0), JsNum(5),
    JsStr(<<>>), JsStr(<<"n", "o", "n", "e">>), JsObj(<<>>) }

\* {}
EmptyAnalysis == JsObj(<<>>)

\* A parsed object that has every field of the schema in its declared shape.
ValidAnalysis(overall, ats, pct, flag, n) ==
  JsObj([
    overallScore |-> JsNum(overall),
    verdict |-> JsStr(<<"MODERATE MATCH">>),
    summary |-> JsStr(<<"summary">>),
    sixSecondScan |-> JsObj([
      firstImpression |-> JsStr(<<"impression">>),
      standoutElements |-> JsList(<<JsStr(<<"clear history">>)>>),
      immediateRedFlags |-> EmptyList,
      wouldReadMore |-> JsBool(flag),
      whyOrWhyNot |-> JsStr(<<"why">>)]),
    atsAnalysis |-> JsObj([
      score |-> JsNum(ats),
      likelyToPass |-> JsBool(flag),
      keywordsFound |-> JsList(<<JsStr(<<"React">>), JsStr(<<"Git">>)>>),
      criticalKeywordsMissing |-> JsList(<<JsStr(<<"AWS">>)>>),
      suggestionToPassATS |-> JsStr(<<"add keywords">>)]),
    qualificationGap |-> JsObj([
      experienceRequired |-> JsStr(<<"5+ years">>),
      experienceYouHave |-> JsStr(<<"4 years">>),
      gapAssessment |-> JsStr(<<"SLIGHTLY_UNDER">>),
      yearsGap |-> JsStr(<<"1 year">>),
      canYouCloseGap |-> JsBool(flag),
      howToCloseGap |-> EmptyString]),
    dealbreakers |-> JsList(<<JsObj([requirement |-> JsStr(<<"TypeScript">>)])>>),
    strengths |-> JsList(<<JsObj([skill |-> JsStr(<<"React">>)])>>),
    hiddenRedFlags |-> EmptyList,
    competitorAnalysis |-> JsObj([
      typicalWinningCandidate |-> JsStr(<<"profile">>),
      howYouCompare |-> JsStr(<<"comparison">>),
      yourCompetitiveAdvantage |-> JsStr(<<"advantage">>),
      yourBiggestDisadvantage |-> JsStr(<<"disadvantage">>)]),
    applicationStrategy |-> JsObj([
      shouldYouApply |-> JsBool(flag),
      confidenceLevel |-> JsStr(<<"LOW">>),
      bestApproach |-> JsStr(<<"CUSTOMIZE_HEAVILY">>),
      timeWorthInvesting |-> JsStr(<<"1-2 hours">>),
      alternativeStrategy |-> EmptyString]),
    resumeRewrites |-> RewriteList(n),
    prioritizedActionPlan |-> JsObj([
      before_applying |-> JsList(<<JsStr(<<"must do">>)>>),
      quick_wins |-> EmptyList,
      worth_the_effort |-> EmptyList,
      long_term |-> JsList(<<JsStr(<<"later">>)>>)]),
    interviewProbability |-> JsObj([
      percentage |-> JsNum(pct),
      reasoning |-> JsStr(<<"why">>),
      whatWouldIncreaseOdds |-> JsStr(<<"change">>)]),
    bottomLine |-> JsObj([
      honestAssessment |-> JsStr(<<"real talk">>),
      oneThingToFix |-> JsStr(<<"one thing">>),
      encouragement |-> JsStr(<<"positive">>)])])

\* Scores of the valid objects: the ends of the range and values inside it.
ValidScores == {ScoreMin, 1, 58, 99, ScoreMax}

ValidAnalyses ==
  {ValidAnalysis(s, s, s, b, n) : s \in ValidScores, b \in BOOLEAN, n \in 0..RewriteLimit}
  \cup {ValidAnalysis(58, s, 15, TRUE, 2) : s \in ValidScores}
  \cup {ValidAnalysis(58, 52, s, FALSE, 2) : s \in ValidScores}
  \cup {ValidAnalysis(s, 52, 15, FALSE, 2) : s \in ValidScores}

\* obj with top-level field f set to v.
With(obj, f, v) == JsObj(Spread(obj.o, [x \in {f} |-> v]))

\* obj with field f of its section sec set to v (the section is created when
\* obj has none).
WithIn(obj, sec, f, v) ==
  LET cur == OptGet(obj, sec)
      base == IF cur.t = "obj" THEN cur.o ELSE <<>>
  IN With(obj, sec, JsObj(Spread(base, [x \in {f} |-> v])))

FullAnalysis == ValidAnalysis(58, 52, 15, TRUE, 2)

ListFields == {"dealbreakers", "strengths", "hiddenRedFlags"}

SectionFields ==
  {"sixSecondScan", "atsAnalysis", "qualificationGap", "competitorAnalysis",
   "applicationStrategy", "prioritizedActionPlan", "interviewProbability",
   "bottomLine"}

\* The parsed objects tried: {}, the valid objects, and objects that differ from
\* {} or from a valid object in one field.
AnalysisPool ==
  {EmptyAnalysis} \cup ValidAnalyses
  \cup {With(b, "overallScore", v) : b \in {EmptyAnalysis, FullAnalysis}, v \in ScoreValues}
  \cup {WithIn(b, "atsAnalysis", "score", v) : b \in {EmptyAnalysis, FullAnalysis}, v \in ScoreValues}
  \cup {WithIn(b, "interviewProbability", "percentage", v) :
          b \in {EmptyAnalysis, FullAnalysis}, v \in ScoreValues}
  \cup {With(b, "resumeRewrites", v) :
          b \in {EmptyAnalysis, FullAnalysis}, v \in RewriteLists \cup NonListValues}
  \cup {With(FullAnalysis, f, v) : f \in ListFields \cup SectionFields, v \in NonListValues}
  \cup {WithIn(FullAnalysis, "atsAnalysis", "keywordsFound", v) : v \in NonListValues}
  \cup {WithIn(FullAnalysis, "applicationStrategy", "shouldYouApply", v) :
          v \in {Undefined, Null, JsBool(FALSE), JsStr(<<"yes">>)}}
  \cup {With(FullAnalysis, "verdict", v) : v \in {EmptyString, Null, JsNum(3)}}

\* The text of a well-formed object literal.
GoodText == <<"{", "members", "}">>

\* Completion texts (content || '').
CompletionTexts ==
  { <<>>, <<"prose">>, GoodText,
    <<"prose", "{", "members", "}", "prose">>,
    <<"{", "}">>,
    <<"{", "junk", "}">>,
    <<"}", "prose", "{">>,
    <<"{", "members">>,
    <<"{", "members", "}", "prose", "{", "members", "}">>,
    <<"{", "members", "}", "prose", "}">> }

\* The regular expression open[\s\S]*close tried at position i: text[i] must
\* be open, and the star, which first takes the whole rest of the text, gives
\* characters back until close follows; 0 when no attempt succeeds.  The
\* mutant gives the shortest attempt.
RegexEndAtLazy(text, i, open, close) ==
  IF i <= Len(text) /\ text[i] = open /\ \E j \in (i + 1)..Len(text) : text[j] = close
  THEN CHOOSE j \in (i + 1)..Len(text) :
         text[j] = close /\ \A k \in (i + 1)..(j - 1) : text[k] # close
  ELSE 0

RegexEndAt(text, i, open, close) ==
  IF i <= Len(text) /\ text[i] = open /\ \E j \in (i + 1)..Len(text) : text[j] = close
  THEN CHOOSE j \in (i + 1)..Len(text) :
         text[j] = close /\ \A k \in (j + 1)..Len(text) : text[k] # close
  ELSE 0

\* String.prototype.match: the positions are tried from the left, the first
\* that matches wins; start = 0 stands for null.
RECURSIVE RegexExecFrom(_, _, _, _)
RegexExecFrom(text, i, open, close) ==
  IF i > Len(text) THEN [start |-> 0, end |-> 0]
  ELSE IF RegexEndAt(text, i, open, close) > 0
  THEN [start |-> i, end |-> RegexEndAt(text, i, open, close)]
  ELSE RegexExecFrom(text, i + 1, open, close)

\* text.match(/\{[\s\S]*\}/) and text.match(/\[[\s\S]*\]/)
RegexExec(text, open, close) == RegexExecFrom(text, 1, open, close)

\* jsonMatch is not null
HasJsonMatch(text) == RegexExec(text, "{", "}").start > 0

\* jsonMatch[0]
JsonMatch(text) == SubSeq(text, RegexExec(text, "{", "}").start, RegexExec(text, "{", "}").end)

\* JSON.parse(jsonMatch[0]) returns rather than throws a SyntaxError.
JsonParses(sub) == sub \in {<<"{", "members", "}">>, <<"{", "}">>}

\* The value JSON.parse returns.
JsonParse(sub, obj) == IF sub = <<"{", "}">> THEN EmptyAnalysis ELSE obj

(***************************************************************************)
(* Requests.  reqs[r] is the request in slot r: its inputs (in), the       *)
(* handler's position (pc) and locals (loc), the provider calls it has     *)
(* issued (calls), and its response once sent (status, success, error,     *)
(* data).                                                                  *)
(***************************************************************************)
\* Two requests may be in flight together.
ReqIds == {1, 2}

NoInput == [x \in {} |-> "none"]

\* file is the temporary file multer stored for the request: "none",
\* "uploaded" or "deleted".
IdleReq ==
  [kind |-> "none", pc |-> "idle", in |-> NoInput, loc |-> NoInput, calls |-> 0,
   status |-> 0, success |-> FALSE, error |-> "", data |-> Undefined, file |-> "none"]

NoResponse == IdleReq

\* res.status(status).json({ success, error }) / res.json({ success: true, data })
Respond(req, status, success, error, data) ==
  [req EXCEPT !.pc = "done", !.status = status, !.success = success,
              !.error = error, !.data = data]

\* The provider call is issued and the handler suspends at pc.
IssueCall(req, pc) == [req EXCEPT !.pc = pc, !.calls = @ + 1]

\* The request of slot r becomes next: suspended again, or answered (the
\* handler's locals end with it).
Advance(r, next) ==
  /\ reqs' = [reqs EXCEPT ![r] = IF next.pc = "done" THEN IdleReq ELSE next]
  /\ resp' = IF next.pc = "done" THEN next ELSE NoResponse

\* Lengths of the job descriptions tried; 0 is a missing or empty one.
JdLengths ==
  {0, 1, MinJobDescriptionLength - 1, MinJobDescriptionLength,
   MinJobDescriptionLength + 1}

FileKinds == {"pdf", "word", "other"}

\* Extracted texts, by their length and the length of their trim().
ResumeTexts ==
  { [len |-> 0, trimLen |-> 0],
    [len |-> MinResumeLength - 1, trimLen |-> MinResumeLength - 1],
    [len |-> MinResumeLength + 10, trimLen |-> MinResumeLength - 1],
    [len |-> MinResumeLength, trimLen |-> MinResumeLength],
    [len |-> 4 * MinResumeLength, trimLen |-> 4 * MinResumeLength] }

\* The replies of one provider call: a text, and the object its "members" denote.
Replies(pool) ==
  {[text |-> t, obj |-> EmptyAnalysis] : t \in CompletionTexts \ {GoodText}}
  \cup {[text |-> GoodText, obj |-> o] : o \in pool}

NoOp == [op |-> "none", id |-> "none", data |-> <<>>]

StoreOp(op, id, data) == [op |-> op, id |-> id, data |-> data]

(***************************************************************************)
(* The stand-alone server: POST /api/analyze-match.                        *)
(***************************************************************************)
\* The mock result returned when GROQ_API_KEY is not set.
MockAnalysis == ValidAnalysis(58, 52, 15, FALSE, 2)

\* !jobDescription || jobDescription.length < 50
JobDescriptionTooShort(jd) == jd = 0 \/ jd < MinJobDescriptionLength

\* !resumeText || resumeText.trim().length < 50
ResumeTooShort(text) == text.len = 0 \/ text.trimLen < MinResumeLength

\* finally { if (filePath && fs.existsSync(filePath)) fs.unlinkSync(filePath) },
\* run when the handler answers; filePath tells whether the handler had
\* assigned req.file.path to it.
Finally(next, filePath) ==
  IF next.pc = "done" /\ filePath /\ next.file = "uploaded"
  THEN [next EXCEPT !.file = "deleted"]
  ELSE next

\* From the arrival of the request to the await of parseResume; filePath is
\* assigned after the two validations.
AnalyzeReceive(r) ==
  /\ reqs[r].pc = "idle"
  /\ \E hasFile \in BOOLEAN, kind \in FileKinds, jd \in JdLengths :
       LET req == [reqs[r] EXCEPT !.kind = "analyze-match",
                     !.in = [hasFile |-> hasFile, fileKind |-> kind, jd |-> jd],
                     !.file = IF hasFile THEN "uploaded" ELSE "none"]
       IN Advance(r,
            IF ~hasFile
            THEN Finally(Respond(req, 400, FALSE, "Resume file is required", Undefined),
                         FALSE)
            ELSE IF JobDescriptionTooShort(jd)
            THEN Finally(Respond(req, 400, FALSE,
                           "Job description is required (minimum 50 characters)",
                           Undefined),
                         FALSE)
            ELSE [req EXCEPT !.pc = "parsing"])
  /\ lastOp' = NoOp
  /\ UNCHANGED <<sessions, config>>

\* parseResume throws: an unsupported format, or the parser rejects the file.
AnalyzeParseFailed(r) ==
  /\ reqs[r].pc = "parsing"
  /\ reqs[r].kind = "analyze-match"
  /\ Advance(r, Finally(Respond(reqs[r], 500, FALSE,
                         IF reqs[r].in.fileKind = "other"
                         THEN "Unsupported file format. Please upload PDF or Word document."
                         ELSE "parser error",
                         Undefined),
                       TRUE))
  /\ lastOp' = NoOp
  /\ UNCHANGED <<sessions, config>>

\* parseResume returns: the text gate, the credential check, the provider call.
AnalyzeParsed(r) ==
  /\ reqs[r].pc = "parsing"
  /\ reqs[r].kind = "analyze-match"
  /\ reqs[r].in.fileKind # "other"
  /\ \E text \in ResumeTexts :
       LET req == [reqs[r] EXCEPT !.loc = [resumeText |-> text]]
       IN Advance(r,
            Finally(IF ResumeTooShort(text)
                    THEN Respond(req, 400, FALSE,
                           "Could not extract text from resume. Please try a different file.",
                           Undefined)
                    ELSE IF ~credential
                    THEN Respond(req, 200, TRUE, "", MockAnalysis)
                    ELSE IssueCall(req, "calling"),
                    TRUE))
  /\ lastOp' = NoOp
  /\ UNCHANGED <<sessions, config>>

\* groq.chat.completions.create rejects.
AnalyzeCallFailed(r) ==
  /\ reqs[r].pc = "calling"
  /\ reqs[r].kind = "analyze-match"
  /\ Advance(r, Finally(Respond(reqs[r], 500, FALSE, "provider error", Undefined), TRUE))
  /\ lastOp' = NoOp
  /\ UNCHANGED <<sessions, config>>

\* The response of the handler to a completion.
AnalyzeOutcome(req, reply) ==
  IF ~HasJsonMatch(reply.text) \/ ~JsonParses(JsonMatch(reply.text))
  THEN Respond([req EXCEPT !.loc = [resumeText |-> req.loc.resumeText,
                                    responseText |-> reply.text]],
               500, FALSE, "Failed to analyze resume. Please try again.", Undefined)
  ELSE LET analysis == JsonParse(JsonMatch(reply.text), reply.obj)
           parsed == [req EXCEPT !.loc = [resumeText |-> req.loc.resumeText,
                                          responseText |-> reply.text,
                                          analysis |-> analysis]]
       IN IF NormalizeThrows(analysis)
          THEN Respond(parsed, 500, FALSE,
                       "analysis.resumeRewrites.slice is not a function", Undefined)
          ELSE Respond(parsed, 200, TRUE, "", Normalize(analysis))

\* The completion arrives: the JSON is cut out and parsed, the result built.
AnalyzeCompleted(r) ==
  /\ reqs[r].pc = "calling"
  /\ reqs[r].kind = "analyze-match"
  /\ \E reply \in Replies(AnalysisPool) :
       Advance(r, Finally(AnalyzeOutcome(reqs[r], reply), TRUE))
  /\ lastOp' = NoOp
  /\ UNCHANGED <<sessions, config>>

\* This server has no session table and its requests share no state: one slot
\* is used.
AnalyzeSlot == CHOOSE r \in ReqIds : \A q \in ReqIds : r <= q

InitAnalyze ==
  /\ sessions = <<>>
  /\ lastOp = NoOp
  /\ resp = NoResponse
  /\ credential \in BOOLEAN
  /\ acked = {}
  /\ reqs = [r \in ReqIds |-> IdleReq]

NextAnalyze ==
  \/ AnalyzeReceive(AnalyzeSlot)
  \/ AnalyzeParseFailed(AnalyzeSlot)
  \/ AnalyzeParsed(AnalyzeSlot)
  \/ AnalyzeCallFailed(AnalyzeSlot)
  \/ AnalyzeCompleted(AnalyzeSlot)

SpecAnalyze == InitAnalyze /\ [][NextAnalyze]_vars

(***************************************************************************)
(* services/groq (getGroqClient), services/aiService (getClient,           *)
(* analyzeMatch) and services/resumeService (extractProfileFromResume).    *)
(***************************************************************************)
\* getGroqClient(): the shared client, or nothing when no key is configured.
getGroqClient == IF credential THEN "client" ELSE "null"

\* getClient throws 'Groq client not initialized...' when there is no client.
getClientThrows == getGroqClient = "null"

\* The profiles tried.
ProfileP == JsObj([name |-> JsStr(<<"Ann">>), currentTitle |-> JsStr(<<"Engineer">>)])

EmptyProfile == JsObj(<<>>)

\* extractProfileFromResume once the completion is there: the parsed object, or
\* {} when the text has no JSON or does not parse (the catch returns {}).
ProfileOutcome(reply) ==
  IF HasJsonMatch(reply.text) /\ JsonParses(JsonMatch(reply.text))
  THEN JsonParse(JsonMatch(reply.text), reply.obj)
  ELSE EmptyProfile

\* analyzeMatch once the completion is there: it throws or returns the parsed
\* object as it is.
AnalyzeMatchThrows(reply) ==
  ~HasJsonMatch(reply.text) \/ ~JsonParses(JsonMatch(reply.text))

AnalyzeMatchError(reply) ==
  IF ~HasJsonMatch(reply.text) THEN "Failed to analyze" ELSE "SyntaxError"

AnalyzeMatchResult(reply) == JsonParse(JsonMatch(reply.text), reply.obj)

\* The parsed objects tried for analyzeMatch.
ApiAnalysisPool ==
  { EmptyAnalysis, FullAnalysis,
    With(With(FullAnalysis, "overallScore", JsNum(137)),
         "resumeRewrites", RewriteList(RewriteLimit + 1)) }

(***************************************************************************)
(* Operations on the session service, called from outside the handlers.    *)
(***************************************************************************)
JobsJ == JsList(<<JsObj([id |-> JsStr(<<"j1">>)])>>)

ShortResume == [len |-> MinResumeLength - 1, trimLen |-> MinResumeLength - 1]

LongResume == [len |-> 4 * MinResumeLength, trimLen |-> 4 * MinResumeLength]

\* The objects passed to set and update.
Partials ==
  { EmptyObject,
    [profile |-> ProfileP],
    [jobs |-> JobsJ],
    [profile |-> EmptyProfile, jobs |-> JobsJ],
    [resumeText |-> LongResume] }

\* The objects passed to set and update while the handlers run.
ApiPartials == { [profile |-> ProfileP] }

Get(id) ==
  /\ lastOp' = StoreOp("get", id, <<>>)
  /\ resp' = NoResponse
  /\ UNCHANGED <<sessions, config, reqs>>

\* set that merges data into the stored session as update does.
SetMerged(id, data) ==
  /\ sessions' = StoreUpdate(sessions, id, data)
  /\ lastOp' = [op |-> "set", id |-> id, data |-> data,
                replaced |-> Has(sessions, id) /\ sessions[id] # data]
  /\ resp' = NoResponse
  /\ UNCHANGED <<config, reqs>>

\* set; replaced is whether a different session was stored under id before.
Set(id, data) ==
  /\ sessions' = StoreSet(sessions, id, data)
  /\ lastOp' = [op |-> "set", id |-> id, data |-> data,
                replaced |-> Has(sessions, id) /\ sessions[id] # data]
  /\ resp' = NoResponse
  /\ UNCHANGED <<config, reqs>>

\* update; ret is the value it returns (return sessions[id]), created whether
\* it found no session under id.
Update(id, data) ==
  /\ sessions' = StoreUpdate(sessions, id, data)
  /\ lastOp' = [op |-> "update", id |-> id, data |-> data,
                created |-> ~Has(sessions, id),
                ret |-> IF Has(sessions', id) THEN sessions'[id] ELSE Undefined]
  /\ resp' = NoResponse
  /\ UNCHANGED <<config, reqs>>

Delete(id) ==
  /\ sessions' = StoreDelete(sessions, id)
  /\ lastOp' = StoreOp("delete", id, <<>>)
  /\ resp' = NoResponse
  /\ UNCHANGED <<config, reqs>>

InitStore ==
  /\ sessions = <<>>
  /\ lastOp = NoOp
  /\ resp = NoResponse
  /\ credential \in BOOLEAN
  /\ acked = {}
  /\ reqs = [r \in ReqIds |-> IdleReq]

NextStore ==
  \/ \E id \in SessionIds : Get(id)
  \/ \E id \in SessionIds, data \in Partials : Set(id, data)
  \/ \E id \in SessionIds, data \in Partials : Update(id, data)
  \/ \E id \in SessionIds : Delete(id)

SpecStore == InitStore /\ [][NextStore]_vars

(***************************************************************************)
(* routes/api.ts: POST /extract-profile and POST /analyze-match.  The      *)
(* insert into the database that either handler awaits before it responds  *)
(* (its failure is only logged) is part of the step that responds.         *)
(***************************************************************************)
\* A session stored without the text of the upload.
NewSessionNoText(sessionId, resumeText, profile) ==
  [id |-> sessionId, profile |-> profile,
   uploadedAt |-> "timestamp", fileName |-> "originalname"]

\* The session stored for an upload.
NewSession(sessionId, resumeText, profile) ==
  [id |-> sessionId, resumeText |-> resumeText, profile |-> profile,
   uploadedAt |-> "timestamp", fileName |-> "originalname"]

ApiTexts == {ShortResume, LongResume}

\* Job descriptions sent to routes/api.ts.
ApiJdLengths == {0, MinJobDescriptionLength - 1, MinJobDescriptionLength}

\* The profiles extractProfileFromResume can return after its provider call:
\* {} when the call rejects.
ProfileOutcomes ==
  {ProfileOutcome(reply) : reply \in Replies({ProfileP})} \cup {EmptyProfile}

\* extract-profile, from the arrival to the await of parseResume.
ApiExtractReceive(r) ==
  /\ reqs[r].pc = "idle"
  /\ \E hasFile \in BOOLEAN :
       LET req == [reqs[r] EXCEPT !.kind = "extract-profile",
                     !.in = [hasFile |-> hasFile]]
       IN Advance(r,
            IF ~hasFile
            THEN Respond(req, 400, FALSE, "No resume file uploaded", Undefined)
            ELSE [req EXCEPT !.pc = "parsing"])
  /\ lastOp' = NoOp
  /\ UNCHANGED <<sessions, config>>

\* parseResume throws, in either handler.
ApiParseFailed(r) ==
  /\ reqs[r].pc = "parsing"
  /\ reqs[r].kind \in {"extract-profile", "api-analyze-match"}
  /\ Advance(r, Respond(reqs[r], 500, FALSE, "parser error", Undefined))
  /\ lastOp' = NoOp
  /\ UNCHANGED <<sessions, config>>

\* The session is stored and the response of extract-profile sent.
ApiExtractStore(r, req, profile) ==
  LET sessionId == req.loc.sessionId
      session == NewSession(sessionId, req.loc.resumeText, profile)
  IN /\ sessions' = StoreSet(sessions, sessionId, session)
     /\ lastOp' = StoreOp("set", sessionId, session)
     /\ Advance(r, Respond(req, 200, TRUE, "",
                           [sessionId |-> sessionId, profile |-> profile]))

\* extract-profile: the text is there.  Without a client
\* extractProfileFromResume returns {} at once; with one, the provider is called.
ApiExtractParsed(r) ==
  /\ reqs[r].pc = "parsing"
  /\ reqs[r].kind = "extract-profile"
  /\ \E text \in ApiTexts, sessionId \in SessionIds :
       LET req == [reqs[r] EXCEPT !.loc = [resumeText |-> text, sessionId |-> sessionId]]
       IN IF getGroqClient = "null"
          THEN ApiExtractStore(r, req, EmptyProfile)
          ELSE /\ sessions' = sessions
               /\ lastOp' = NoOp
               /\ Advance(r, IssueCall(req, "profiling"))
  /\ UNCHANGED config

\* extract-profile: the profile call is over (profile is {} when it failed or
\* gave no JSON).
ApiExtractProfiled(r) ==
  /\ reqs[r].pc = "profiling"
  /\ reqs[r].kind = "extract-profile"
  /\ \E profile \in ProfileOutcomes : ApiExtractStore(r, reqs[r], profile)
  /\ UNCHANGED config

\* The session check placed after the provider call.
NotFoundAfterCall(req, error) == Respond(IssueCall(req, "calling"), 404, FALSE, error, Undefined)

\* if (!session) return res.status(404).json({ success: false, error })
NotFound(req, error) == Respond(req, 404, FALSE, error, Undefined)

\* aiService.analyzeMatch up to its provider call: resumeText.substring throws
\* on a session without resumeText, getClient throws without a client.
ApiStartAnalysis(req, hasText) ==
  IF ~hasText
  THEN Respond(req, 500, FALSE, "Cannot read properties of undefined", Undefined)
  ELSE IF getClientThrows
  THEN Respond(req, 500, FALSE,
               "Groq client not initialized. Please configure GROQ_API_KEY.", Undefined)
  ELSE IssueCall(req, "calling")

\* analyze-match, from the arrival to its first await.  (The session id of the
\* request is not read when a file is uploaded.)
ApiAnalyzeReceive(r) ==
  /\ reqs[r].pc = "idle"
  /\ \E hasFile \in BOOLEAN, jd \in ApiJdLengths, sid \in SessionIds \cup {"none"} :
       LET req == [reqs[r] EXCEPT !.kind = "api-analyze-match",
                     !.in = [hasFile |-> hasFile, jd |-> jd, sid |-> sid]]
       IN /\ hasFile => sid = "none"
          /\ IF jd = 0
             THEN /\ Advance(r, Respond(req, 400, FALSE, "Job description is required",
                                        Undefined))
                  /\ lastOp' = NoOp
             ELSE IF hasFile
             THEN /\ Advance(r, [req EXCEPT !.pc = "parsing"])
                  /\ lastOp' = NoOp
             ELSE IF sid # "none"
             THEN /\ lastOp' = StoreOp("get", sid, <<>>)
                  /\ Advance(r,
                       IF ~Has(sessions, sid)
                       THEN NotFound(req, "Session not found. Please upload resume again.")
                       ELSE ApiStartAnalysis(
                              [req EXCEPT !.loc = [sessionId |-> sid]],
                              "resumeText" \in DOMAIN sessions[sid]))
             ELSE /\ Advance(r, Respond(req, 400, FALSE, "No resume provided", Undefined))
                  /\ lastOp' = NoOp
  /\ UNCHANGED <<sessions, config>>

\* The session is stored and analyzeMatch called.
ApiAnalyzeStore(r, req, profile) ==
  LET sessionId == req.loc.sessionId
      session == NewSession(sessionId, req.loc.resumeText, profile)
  IN /\ sessions' = StoreSet(sessions, sessionId, session)
     /\ lastOp' = StoreOp("set", sessionId, session)
     /\ Advance(r, ApiStartAnalysis(req, TRUE))

\* analyze-match with a file: the text is there.  Without a client the profile
\* is {} at once; with one, the provider is called for the profile.
ApiAnalyzeParsed(r) ==
  /\ reqs[r].pc = "parsing"
  /\ reqs[r].kind = "api-analyze-match"
  /\ \E text \in ApiTexts, sessionId \in SessionIds :
       LET req == [reqs[r] EXCEPT !.loc = [resumeText |-> text, sessionId |-> sessionId]]
       IN IF getGroqClient = "null"
          THEN ApiAnalyzeStore(r, req, EmptyProfile)
          ELSE /\ sessions' = sessions
               /\ lastOp' = NoOp
               /\ Advance(r, IssueCall(req, "profiling"))
  /\ UNCHANGED config

\* analyze-match with a file: the profile call is over.
ApiAnalyzeProfiled(r) ==
  /\ reqs[r].pc = "profiling"
  /\ reqs[r].kind = "api-analyze-match"
  /\ \E profile \in ProfileOutcomes : ApiAnalyzeStore(r, reqs[r], profile)
  /\ UNCHANGED config

\* analyze-match: the provider call of analyzeMatch rejects.
ApiAnalyzeCallFailed(r) ==
  /\ reqs[r].pc = "calling"
  /\ reqs[r].kind = "api-analyze-match"
  /\ Advance(r, Respond(reqs[r], 500, FALSE, "provider error", Undefined))
  /\ lastOp' = NoOp
  /\ UNCHANGED <<sessions, config>>

\* analyze-match: the completion is there; analyzeMatch throws, or returns the
\* parsed object, which is sent as it is.
ApiAnalyzeCompleted(r) ==
  /\ reqs[r].pc = "calling"
  /\ reqs[r].kind = "api-analyze-match"
  /\ \E reply \in Replies(ApiAnalysisPool) :
       Advance(r,
         IF AnalyzeMatchThrows(reply)
         THEN Respond(reqs[r], 500, FALSE, AnalyzeMatchError(reply), Undefined)
         ELSE Respond(reqs[r], 200, TRUE, "",
                      [sessionId |-> reqs[r].loc.sessionId,
                       analysis |-> AnalyzeMatchResult(reply),
                       verificationToken |-> "token"]))
  /\ lastOp' = NoOp
  /\ UNCHANGED <<sessions, config>>

Init ==
  /\ sessions = <<>>
  /\ lastOp = NoOp
  /\ resp = NoResponse
  /\ credential \in BOOLEAN
  /\ acked = {}
  /\ reqs = [r \in ReqIds |-> IdleReq]

Next ==
  \/ \E id \in SessionIds : Get(id)
  \/ \E id \in SessionIds, data \in ApiPartials : Set(id, data)
  \/ \E id \in SessionIds, data \in ApiPartials : Update(id, data)
  \/ \E id \in SessionIds : Delete(id)
  \/ \E r \in ReqIds :
       \/ ApiExtractReceive(r)
       \/ ApiParseFailed(r)
       \/ ApiExtractParsed(r)
       \/ ApiExtractProfiled(r)
       \/ ApiAnalyzeReceive(r)
       \/ ApiAnalyzeParsed(r)
       \/ ApiAnalyzeProfiled(r)
       \/ ApiAnalyzeCallFailed(r)
       \/ ApiAnalyzeCompleted(r)

Spec == Init /\ [][Next]_vars

(***************************************************************************)
(* index.ts: the sessions table, POST /api/extract-profile and the job     *)
(* tracker.  A request whose handler has no await is queued by its arrival *)
(* and handled in one step.                                                *)
(***************************************************************************)
\* resumeText.length < 100 is rejected.
IndexMinResumeLength == 100

IndexTexts ==
  { [len |-> 0, trimLen |-> 0],
    [len |-> IndexMinResumeLength - 1, trimLen |-> IndexMinResumeLength - 1],
    [len |-> IndexMinResumeLength, trimLen |-> IndexMinResumeLength] }

\* The job objects sent to save-job.
SaveJobs ==
  { [id |-> "j1"], [id |-> "j2", title |-> "Analyst"] }

\* The status sent to save-job; "undefined" stands for a request without one.
SaveStatuses == {"undefined", "APPLIED"}

\* 'sess_' + Math.random().toString(36).substring(2) + Date.now().toString(36):
\* an id no stored session has.
IndexSessionIds == {"s1"}
FreshIds == IndexSessionIds \ DOMAIN sessions

\* j.id
IdOf(j) == IF "id" \in DOMAIN j THEN j["id"] ELSE "undefined"

\* session.savedJobs.findIndex(j => j.id === job.id): the first match, 0 for none.
FindIndex(list, id) ==
  IF \E i \in 1..Len(list) : IdOf(list[i]) = id
  THEN CHOOSE i \in 1..Len(list) :
         IdOf(list[i]) = id /\ \A k \in 1..(i - 1) : IdOf(list[k]) # id
  ELSE 0

\* save-job that starts a new list for a job it does not find.
SaveJobListOverwrite(list, job, status) ==
  LET existingIndex == FindIndex(list, IdOf(job))
  IN IF existingIndex > 0
     THEN [list EXCEPT ![existingIndex] =
             Spread(Spread(list[existingIndex], job),
                    [status |-> status, updatedAt |-> "now"])]
     ELSE <<Spread(job, [status |-> IF status = "undefined" THEN "SAVED" ELSE status,
                         savedAt |-> "now"])>>

\* The tracked list after the if/else of save-job.
SaveJobList(list, job, status) ==
  LET existingIndex == FindIndex(list, IdOf(job))
  IN IF existingIndex > 0
     THEN [list EXCEPT ![existingIndex] =
             Spread(Spread(list[existingIndex], job),
                    [status |-> status, updatedAt |-> "now"])]
     ELSE Append(list, Spread(job, [status |-> IF status = "undefined" THEN "SAVED" ELSE status,
                                    savedAt |-> "now"]))

\* session.savedJobs, [] once `if (!session.savedJobs) session.savedJobs = []` ran.
SavedJobsOf(session) ==
  IF "savedJobs" \in DOMAIN session THEN session["savedJobs"] ELSE <<>>

\* extract-profile, from the arrival to the await of parseResume.
IndexExtractReceive(r) ==
  /\ reqs[r].pc = "idle"
  /\ \E hasFile \in BOOLEAN :
       LET req == [reqs[r] EXCEPT !.kind = "index-extract-profile",
                     !.in = [hasFile |-> hasFile]]
       IN Advance(r,
            IF ~hasFile
            THEN Respond(req, 400, FALSE, "Resume file required", Undefined)
            ELSE [req EXCEPT !.pc = "parsing"])
  /\ lastOp' = NoOp
  /\ UNCHANGED <<sessions, config>>

\* parseResume throws.
IndexExtractParseFailed(r) ==
  /\ reqs[r].pc = "parsing"
  /\ reqs[r].kind = "index-extract-profile"
  /\ Advance(r, Respond(reqs[r], 500, FALSE, "Unsupported file format", Undefined))
  /\ lastOp' = NoOp
  /\ UNCHANGED <<sessions, config>>

\* parseResume returns: the text gate, then the provider call.
IndexExtractParsed(r) ==
  /\ reqs[r].pc = "parsing"
  /\ reqs[r].kind = "index-extract-profile"
  /\ \E text \in IndexTexts :
       LET req == [reqs[r] EXCEPT !.loc = [resumeText |-> text]]
       IN Advance(r,
            IF text.len = 0 \/ text.len < IndexMinResumeLength
            THEN Respond(req, 400, FALSE, "Could not extract text from resume", Undefined)
            ELSE IssueCall(req, "calling"))
  /\ lastOp' = NoOp
  /\ UNCHANGED <<sessions, config>>

\* The provider call rejects.
IndexExtractCallFailed(r) ==
  /\ reqs[r].pc = "calling"
  /\ reqs[r].kind = "index-extract-profile"
  /\ Advance(r, Respond(reqs[r], 500, FALSE, "provider error", Undefined))
  /\ lastOp' = NoOp
  /\ UNCHANGED <<sessions, config>>

\* The completion is there: the profile is parsed and the session created.
IndexExtractCompleted(r) ==
  /\ reqs[r].pc = "calling"
  /\ reqs[r].kind = "index-extract-profile"
  /\ \E reply \in Replies({ProfileP}) :
       IF AnalyzeMatchThrows(reply)
       THEN /\ Advance(r, Respond(reqs[r], 500, FALSE,
                                  IF ~HasJsonMatch(reply.text)
                                  THEN "Failed to parse profile" ELSE "SyntaxError",
                                  Undefined))
            /\ sessions' = sessions
       ELSE /\ FreshIds # {}
            /\ \E sessionId \in FreshIds :
                 LET profile == JsonParse(JsonMatch(reply.text), reply.obj)
                 IN /\ sessions' = StoreSet(sessions, sessionId,
                          [profile |-> profile, resumeText |-> reqs[r].loc.resumeText,
                           jobs |-> <<>>, createdAt |-> "now"])
                    /\ Advance(r, Respond(reqs[r], 200, TRUE, "",
                          [sessionId |-> sessionId, profile |-> profile,
                           resumeText |-> reqs[r].loc.resumeText]))
  /\ lastOp' = NoOp
  /\ UNCHANGED config

\* The jobs of the save-job requests for another job of the same session
\* that are waiting for their handler.
Rivals(r, sid, job) ==
  { IdOf(reqs[q].in.job) :
      q \in { q \in ReqIds \ {r} :
                /\ reqs[q].kind = "save-job"
                /\ reqs[q].pc = "queued"
                /\ reqs[q].in.sid = sid
                /\ IdOf(reqs[q].in.job) # IdOf(job) } }

\* A save-job request arrives and waits for its handler to be run; it notes
\* the requests it found waiting.
IndexSaveJobArrive(r) ==
  /\ reqs[r].pc = "idle"
  /\ \E sid \in SessionIds, job \in SaveJobs, status \in SaveStatuses :
       Advance(r, [reqs[r] EXCEPT !.kind = "save-job", !.pc = "queued",
                     !.in = [sid |-> sid, job |-> job, status |-> status],
                     !.loc = [rivals |-> Rivals(r, sid, job)]])
  /\ lastOp' = NoOp
  /\ UNCHANGED <<sessions, config>>

\* The handler of save-job: it has no await and runs in one step.
IndexSaveJob(r) ==
  /\ reqs[r].pc = "queued"
  /\ reqs[r].kind = "save-job"
  /\ LET sid == reqs[r].in.sid
         job == reqs[r].in.job
     IN IF ~Has(sessions, sid)
        THEN /\ Advance(r, Respond(reqs[r], 400, FALSE, "Session not found", Undefined))
             /\ UNCHANGED <<sessions, acked>>
        ELSE LET list == SaveJobList(SavedJobsOf(sessions[sid]), job, reqs[r].in.status)
             IN /\ sessions' = [sessions EXCEPT ![sid] = Spread(@, [savedJobs |-> list])]
                /\ Advance(r, Respond(reqs[r], 200, TRUE, "", [savedJobs |-> list]))
                /\ acked' = acked \cup {[sid |-> sid, id |-> IdOf(job)]}
  /\ lastOp' = NoOp
  /\ UNCHANGED credential

\* new Groq({ apiKey }) at start-up: the server runs with a key.
InitIndex ==
  /\ sessions = <<>>
  /\ lastOp = NoOp
  /\ resp = NoResponse
  /\ credential = TRUE
  /\ acked = {}
  /\ reqs = [r \in ReqIds |-> IdleReq]

NextIndex ==
  \E r \in ReqIds :
    \/ IndexExtractReceive(r)
    \/ IndexExtractParseFailed(r)
    \/ IndexExtractParsed(r)
    \/ IndexExtractCallFailed(r)
    \/ IndexExtractCompleted(r)
    \/ IndexSaveJobArrive(r)
    \/ IndexSaveJob(r)

SpecIndex == InitIndex /\ [][NextIndex]_vars

(***************************************************************************)
(* services/aiService: analyzeMatch, generateCoverLetter,                  *)
(* generateSpecificCoverLetter, generateInterviewPrep, optimizeResume and  *)
(* analyzeCompanyFit, and extractProfileFromResume of                      *)
(* services/resumeService, each called on its own.  An invocation is a     *)
(* request whose kind is the function; it returns (success) or throws      *)
(* (error).                                                                *)
(***************************************************************************)
\* resumeText.substring(0, 5000) and jobDescription.substring(0, 4000) of analyzeMatch
MatchResumeMax == 5000
MatchJobMax == 4000
\* resumeText.substring(0, 3000) and jobDescription.substring(0, 2000) of generateCoverLetter
LetterResumeMax == 3000
LetterJobMax == 2000
\* jobDescription.substring(0, 3000) of generateSpecificCoverLetter and generateInterviewPrep
SpecificJobMax == 3000
PrepJobMax == 3000
\* resumeText.substring(0, 6000) of extractProfileFromResume
ProfileResumeMax == 6000

\* The length of text.substring(0, n) for a text of length len.
Substring(len, n) == IF len < n THEN len ELSE n

ServiceKinds ==
  {"analyzeMatch", "generateCoverLetter", "generateSpecificCoverLetter",
   "generateInterviewPrep", "optimizeResume", "analyzeCompanyFit",
   "extractProfileFromResume"}

\* The functions whose try/catch returns a value instead of throwing.
CatchesAll == {"analyzeCompanyFit", "extractProfileFromResume"}

\* The lengths of the resume text, job description and company research
\* passed to a function.
ServiceInputs ==
  { [resume |-> a, jd |-> b, research |-> c] :
      a \in {100, MatchResumeMax, ProfileResumeMax + 1},
      b \in {100, LetterJobMax + 1, MatchJobMax + 1},
      c \in {100, MatchResumeMax + 1} }

\* The inputs tried for a function: a text its prompt does not use is short.
ServiceInputsOf(kind) ==
  { in \in ServiceInputs :
      /\ kind \in {"generateSpecificCoverLetter", "generateInterviewPrep",
                   "analyzeCompanyFit"} => in.resume = 100
      /\ kind \in {"analyzeCompanyFit", "extractProfileFromResume"} => in.jd = 100
      /\ kind \notin {"generateSpecificCoverLetter", "generateInterviewPrep"}
           => in.research = 100 }

\* How many characters of each long text the prompt of a function holds
\* (0: the template does not insert the text).
PromptOf(kind, in) ==
  CASE kind = "analyzeMatch" ->
         [resume |-> Substring(in.resume, MatchResumeMax),
          jd |-> Substring(in.jd, MatchJobMax), research |-> 0]
    [] kind = "generateCoverLetter" ->
         [resume |-> Substring(in.resume, LetterResumeMax),
          jd |-> Substring(in.jd, LetterJobMax), research |-> 0]
    [] kind = "generateSpecificCoverLetter" ->
         [resume |-> 0, jd |-> Substring(in.jd, SpecificJobMax), research |-> in.research]
    [] kind = "generateInterviewPrep" ->
         [resume |-> 0, jd |-> Substring(in.jd, PrepJobMax), research |-> in.research]
    [] kind = "optimizeResume" ->
         [resume |-> in.resume, jd |-> in.jd, research |-> 0]
    [] kind = "extractProfileFromResume" ->
         [resume |-> Substring(in.resume, ProfileResumeMax), jd |-> 0, research |-> 0]
    [] OTHER ->
         [resume |-> 0, jd |-> 0, research |-> 0]

\* The bracket pair a function looks for in the completion; the cover letters
\* return the text itself.
ShapeOf(kind) ==
  CASE kind = "generateInterviewPrep" -> [open |-> "[", close |-> "]"]
    [] kind \in {"analyzeMatch", "optimizeResume", "analyzeCompanyFit",
                 "extractProfileFromResume"} -> [open |-> "{", close |-> "}"]
    [] OTHER -> [open |-> "", close |-> ""]

\* The message of the error thrown when the completion has no match.
NoMatchError(kind) ==
  CASE kind = "generateInterviewPrep" -> "Failed to generate interview preparation"
    [] kind = "optimizeResume" -> "Invalid AI response format"
    [] OTHER -> "Failed to analyze"

\* Completion texts of up to three tokens; "members" is well-formed content
\* of the enclosing brackets, "prose" is text that is not JSON.
ServiceTokens == {"{", "}", "[", "]", "members", "prose"}

ServiceTexts ==
  {<<>>} \cup {<<a>> : a \in ServiceTokens}
  \cup {<<a, b>> : a \in ServiceTokens, b \in ServiceTokens}
  \cup {<<a, b, c>> : a \in ServiceTokens, b \in ServiceTokens, c \in ServiceTokens}
  \cup {<<"[", "{", "members", "}", "]">>,
        <<"prose", "[", "members", "]", "prose", "]">>,
        <<"{", "members", "}", "prose", "{", "members", "}">>}

\* JSON.parse(sub) returns: sub is an object or array literal.
RECURSIVE IsJsonText(_)
IsJsonText(sub) ==
  /\ Len(sub) >= 2
  /\ LET inner == SubSeq(sub, 2, Len(sub) - 1)
     IN \/ /\ sub[1] = "{"
           /\ sub[Len(sub)] = "}"
           /\ inner \in {<<>>, <<"members">>}
        \/ /\ sub[1] = "["
           /\ sub[Len(sub)] = "]"
           /\ (inner \in {<<>>, <<"members">>} \/ IsJsonText(inner))

\* What a function of CatchesAll returns when it has no parsed reply:
\* extractProfileFromResume returns {}, analyzeCompanyFit a fixed record.
Fallback(kind, cause) ==
  IF kind = "extractProfileFromResume"
  THEN [parsed |-> <<"{", "}">>]
  ELSE IF cause = "no match"
  THEN [score |-> 50, status |-> "Analysis Failed"]
  ELSE [score |-> 0, status |-> "Error"]

\* The function ends without a reply it could parse: it throws, or returns
\* its fallback.
Fail(req, cause, error) ==
  IF req.kind \in CatchesAll
  THEN Respond(req, 0, TRUE, "", Fallback(req.kind, cause))
  ELSE Respond(req, 0, FALSE, error, Undefined)

\* The prompt is built, the client fetched and the provider called.
ServiceInvoke(r) ==
  /\ reqs[r].pc = "idle"
  /\ \E kind \in ServiceKinds :
       \E in \in ServiceInputsOf(kind) :
         LET req == [reqs[r] EXCEPT !.kind = kind, !.in = in,
                       !.loc = [prompt |-> PromptOf(kind, in)]]
         IN Advance(r,
              IF getClientThrows
              THEN Fail(req, "no client",
                        "Groq client not initialized. Please configure GROQ_API_KEY.")
              ELSE IssueCall(req, "calling"))
  /\ lastOp' = NoOp
  /\ UNCHANGED <<sessions, config>>

\* A second call after a rejected one.
ServiceCallFailedRetry(r) ==
  /\ reqs[r].pc = "calling"
  /\ reqs[r].kind \in ServiceKinds
  /\ Advance(r, IssueCall(reqs[r], "calling"))
  /\ lastOp' = NoOp
  /\ UNCHANGED <<sessions, config>>

\* client.chat.completions.create rejects.
ServiceCallFailed(r) ==
  /\ reqs[r].pc = "calling"
  /\ reqs[r].kind \in ServiceKinds
  /\ Advance(r, Fail(reqs[r], "call failed", "provider error"))
  /\ lastOp' = NoOp
  /\ UNCHANGED <<sessions, config>>

\* What the function does with the completion text.
ServiceOutcome(req, text) ==
  LET shape == ShapeOf(req.kind)
      m == RegexExec(text, shape.open, shape.close)
      sub == SubSeq(text, m.start, m.end)
      seen == [req EXCEPT !.loc = [prompt |-> req.loc.prompt, text |-> text,
                                   handed |-> IF shape.open = "" \/ m.start = 0
                                              THEN <<>> ELSE sub]]
  IN IF shape.open = ""
     THEN Respond(seen, 0, TRUE, "", [letter |-> text])
     ELSE IF m.start = 0
     THEN Fail(seen, "no match", NoMatchError(req.kind))
     ELSE IF ~IsJsonText(sub)
     THEN Fail(seen, "malformed", "SyntaxError")
     ELSE Respond(seen, 0, TRUE, "", [parsed |-> sub])

\* The completion is there.
ServiceCompleted(r) ==
  /\ reqs[r].pc = "calling"
  /\ reqs[r].kind \in ServiceKinds
  /\ \E text \in ServiceTexts : Advance(r, ServiceOutcome(reqs[r], text))
  /\ lastOp' = NoOp
  /\ UNCHANGED <<sessions, config>>

InitService ==
  /\ sessions = <<>>
  /\ lastOp = NoOp
  /\ resp = NoResponse
  /\ credential \in BOOLEAN
  /\ acked = {}
  /\ reqs = [r \in ReqIds |-> IdleReq]

\* The invocations share no state: one slot is used.
NextService ==
  \/ ServiceInvoke(AnalyzeSlot)
  \/ ServiceCallFailed(AnalyzeSlot)
  \/ ServiceCompleted(AnalyzeSlot)

SpecService == InitService /\ [][NextService]_vars

(***************************************************************************)
(* index.ts: POST /api/search-jobs and POST /api/update-job-status, run     *)
(* with extract-profile and save-job.  A handler holds the session object  *)
(* it read from the table; index.ts binds an id to an object once, at its  *)
(* creation, so the object a suspended handler holds is the one the table   *)
(* has under the id.  Slot TrackerSlot takes the requests of the tracker,   *)
(* the other one the uploads and searches.                                  *)
(***************************************************************************)
\* The job arrays the model returns to search-jobs.
SearchJobLists ==
  { <<>>, <<[id |-> "j1"], [id |-> "j2", title |-> "Analyst"]>> }

\* The completions of the job generation.
SearchTexts == { <<"prose">>, <<"[", "prose", "]">>, <<"[", "members", "]">> }

\* What quickScoreJob returns: the parsed score, or its default.
ScoreOutcomes == { [matchScore |-> 50], [matchScore |-> 90] }

\* scoredJobs.sort((a, b) => b.matchScore - a.matchScore): job goes behind the
\* entries of sorted whose score is not lower.
InsertByScore(sorted, job) ==
  LET ahead == {i \in 1..Len(sorted) : sorted[i].matchScore >= job.matchScore}
      n == Cardinality(ahead)
  IN SubSeq(sorted, 1, n) \o <<job>> \o SubSeq(sorted, n + 1, Len(sorted))

RECURSIVE SortByScore(_)
SortByScore(list) ==
  IF list = <<>> THEN <<>>
  ELSE InsertByScore(SortByScore(SubSeq(list, 1, Len(list) - 1)), list[Len(list)])

\* Assignment to jobs that also empties the tracked list.
SetJobsReset(session, jobs) == Spread(session, [jobs |-> jobs, savedJobs |-> <<>>])

\* session.jobs = scoredJobs
SetJobs(session, jobs) == Spread(session, [jobs |-> jobs])

\* search-jobs, from the arrival to the await of the job generation; tracked
\* notes how long the tracked list was when the request arrived.
IndexSearchReceive(r) ==
  /\ reqs[r].pc = "idle"
  /\ \E sid \in SessionIds :
       LET req == [reqs[r] EXCEPT !.kind = "search-jobs", !.in = [sid |-> sid]]
       IN Advance(r,
            IF ~Has(sessions, sid)
            THEN Respond(req, 400, FALSE,
                         "Session not found. Please upload resume first.", Undefined)
            ELSE IF "profile" \notin DOMAIN sessions[sid]
            THEN Respond(req, 500, FALSE, "Cannot read properties of undefined", Undefined)
            ELSE IssueCall([req EXCEPT !.loc = [tracked |-> Len(SavedJobsOf(sessions[sid]))]],
                           "generating"))
  /\ lastOp' = NoOp
  /\ UNCHANGED <<sessions, config>>

\* The job generation rejects.
IndexSearchCallFailed(r) ==
  /\ reqs[r].pc = "generating"
  /\ reqs[r].kind = "search-jobs"
  /\ Advance(r, Respond(reqs[r], 500, FALSE, "provider error", Undefined))
  /\ lastOp' = NoOp
  /\ UNCHANGED <<sessions, config>>

\* The generated jobs are there: the array is cut out and parsed, and one
\* scoring call per job is issued (Promise.all).
IndexSearchGenerated(r) ==
  /\ reqs[r].pc = "generating"
  /\ reqs[r].kind = "search-jobs"
  /\ \E text \in SearchTexts, jobs \in SearchJobLists :
       LET m == RegexExec(text, "[", "]")
       IN Advance(r,
            IF m.start = 0
            THEN Respond(reqs[r], 500, FALSE, "Failed to generate jobs", Undefined)
            ELSE IF ~IsJsonText(SubSeq(text, m.start, m.end))
            THEN Respond(reqs[r], 500, FALSE, "SyntaxError", Undefined)
            ELSE [reqs[r] EXCEPT !.pc = "scoring", !.calls = @ + Len(jobs),
                                 !.loc = [tracked |-> reqs[r].loc.tracked, jobs |-> jobs]])
  /\ lastOp' = NoOp
  /\ UNCHANGED <<sessions, config>>

\* Every quickScoreJob has returned (it catches its failures): the jobs are
\* sorted, assigned to the session object and sent.
IndexSearchScored(r) ==
  /\ reqs[r].pc = "scoring"
  /\ reqs[r].kind = "search-jobs"
  /\ Has(sessions, reqs[r].in.sid)
  /\ LET jobs == reqs[r].loc.jobs
     IN \E scores \in [1..Len(jobs) -> ScoreOutcomes] :
          LET scoredJobs == SortByScore([i \in 1..Len(jobs) |-> Spread(jobs[i], scores[i])])
          IN /\ sessions' = [sessions EXCEPT ![reqs[r].in.sid] = SetJobs(@, scoredJobs)]
             /\ Advance(r, Respond(reqs[r], 200, TRUE, "", [jobs |-> scoredJobs]))
  /\ lastOp' = NoOp
  /\ UNCHANGED config

\* The bodies sent to update-job-status ("undefined" for a body without
\* notes); no save-job sends job j3.
UpdateBodies ==
  { [jobId |-> "j1", status |-> "APPLIED", notes |-> "called"],
    [jobId |-> "j2", status |-> "INTERVIEW", notes |-> "undefined"],
    [jobId |-> "j3", status |-> "APPLIED", notes |-> "undefined"] }

\* The entry update-job-status leaves in place of job.
UpdateEntry(job, status, notes) ==
  Spread(Spread(Spread(job, [status |-> status]),
                IF notes = "undefined" THEN EmptyObject ELSE [notes |-> notes]),
         IF status = "APPLIED"
         THEN [updatedAt |-> "now", appliedAt |-> "now"]
         ELSE [updatedAt |-> "now"])

\* update-job-status that changes every entry.
UpdateStatusListAll(list, jobId, status, notes) ==
  [k \in 1..Len(list) |-> UpdateEntry(list[k], status, notes)]

\* The tracked list after savedJobs.find(j => j.id === jobId) and the
\* assignments to the entry found.
UpdateStatusList(list, jobId, status, notes) ==
  LET i == FindIndex(list, jobId)
  IN IF i > 0 THEN [list EXCEPT ![i] = UpdateEntry(@, status, notes)] ELSE list

\* An update-job-status request arrives and waits for its handler to be run.
IndexUpdateStatusArrive(r) ==
  /\ reqs[r].pc = "idle"
  /\ \E sid \in SessionIds, body \in UpdateBodies :
       Advance(r, [reqs[r] EXCEPT !.kind = "update-job-status", !.pc = "queued",
                     !.in = [sid |-> sid, jobId |-> body.jobId, status |-> body.status,
                             notes |-> body.notes]])
  /\ lastOp' = NoOp
  /\ UNCHANGED <<sessions, config>>

\* The handler of update-job-status: it has no await and runs in one step.
IndexUpdateStatus(r) ==
  /\ reqs[r].pc = "queued"
  /\ reqs[r].kind = "update-job-status"
  /\ LET sid == reqs[r].in.sid
         in == reqs[r].in
     IN IF ~Has(sessions, sid) \/ "savedJobs" \notin DOMAIN sessions[sid]
        THEN /\ Advance(r, Respond(reqs[r], 400, FALSE, "No saved jobs", Undefined))
             /\ sessions' = sessions
        ELSE LET list == sessions[sid].savedJobs
                 i == FindIndex(list, in.jobId)
                 new == UpdateStatusList(list, in.jobId, in.status, in.notes)
             IN /\ sessions' = [sessions EXCEPT ![sid] = Spread(@, [savedJobs |-> new])]
                /\ Advance(r, Respond(reqs[r], 200, TRUE, "",
                                      IF i > 0 THEN [job |-> new[i]] ELSE EmptyObject))
  /\ lastOp' = NoOp
  /\ UNCHANGED config

TrackerSlot == CHOOSE r \in ReqIds : r # AnalyzeSlot

NextTracker ==
  \/ IndexExtractReceive(AnalyzeSlot)
  \/ IndexExtractParsed(AnalyzeSlot)
  \/ IndexExtractCompleted(AnalyzeSlot)
  \/ IndexSearchReceive(AnalyzeSlot)
  \/ IndexSearchCallFailed(AnalyzeSlot)
  \/ IndexSearchGenerated(AnalyzeSlot)
  \/ IndexSearchScored(AnalyzeSlot)
  \/ IndexSaveJobArrive(TrackerSlot)
  \/ IndexSaveJob(TrackerSlot)
  \/ IndexUpdateStatusArrive(TrackerSlot)
  \/ IndexUpdateStatus(TrackerSlot)

SpecTracker == InitIndex /\ [][NextTracker]_vars

(***************************************************************************)
(* routes/api.ts: the handlers that read a stored session                  *)
(* (generate-cover-letter, generate-specific-cover-letter,                 *)
(* generate-interview-prep, optimize-resume), run together with the upload *)
(* handlers, one request at a time.                                        *)
(***************************************************************************)
RouteKinds ==
  {"generate-cover-letter", "generate-specific-cover-letter",
   "generate-interview-prep", "optimize-resume"}

\* The aiService function a route calls.
RouteFunction(kind) ==
  CASE kind = "generate-cover-letter" -> "generateCoverLetter"
    [] kind = "generate-specific-cover-letter" -> "generateSpecificCoverLetter"
    [] kind = "generate-interview-prep" -> "generateInterviewPrep"
    [] OTHER -> "optimizeResume"

\* Lengths of the jobDescription of the body; 0 is a body without one.
RouteJdLengths == {0, 100, PrepJobMax + 1}

\* Lengths of the text researchCompany returns.
ResearchLengths == {100, MatchResumeMax + 1}

\* Completion texts tried through the routes.
RouteTexts ==
  { <<>>, <<"prose">>, <<"{", "members", "}">>, <<"[", "members", "]">>,
    <<"{", "prose", "}">>, <<"prose", "[", "members", "]", "prose", "]">> }

\* The companyName and jobTitle of a body: absent, empty, or a name (of two
\* characters or more: researchCompany looks it up).
CompanyNames == {Undefined, EmptyString, JsStr(<<"Acme">>)}

JobTitles == {Undefined, JsStr(<<"Engineer">>)}

\* `${v}` in a template literal.
Interpolate(v) == IF v.t = "undefined" THEN JsStr(<<"undefined">>) ELSE v

\* What the prompt of a route holds at the place of the company name and of
\* the job title: generate-cover-letter passes jobTitle || 'Role' and
\* companyName || 'Company', the two other generators companyName itself;
\* their templates have no place for a title.
SlotsOf(kind, name, title) ==
  IF kind = "generate-cover-letter"
  THEN [company |-> Interpolate(Or(name, JsStr(<<"Company">>))),
        title |-> Interpolate(Or(title, JsStr(<<"Role">>)))]
  ELSE [company |-> Interpolate(name)]

\* The aiService function up to its provider call: building the prompt throws
\* a TypeError on a missing text, getClient throws without a client.
RouteStart(req, session) ==
  LET fn == RouteFunction(req.kind)
      noResume == "resumeText" \notin DOMAIN session
      noProfile == "profile" \notin DOMAIN session
      throws ==
        \/ fn = "generateCoverLetter" /\ noResume
        \/ fn \in {"generateSpecificCoverLetter", "generateInterviewPrep"}
             /\ (noProfile \/ req.in.jd = 0)
      texts == [resume |-> IF noResume THEN 0 ELSE session.resumeText.len,
                jd |-> req.in.jd,
                research |-> IF "research" \in DOMAIN req.loc THEN req.loc.research ELSE 0]
      ready == [req EXCEPT !.loc = [prompt |-> PromptOf(fn, texts), sessionId |-> req.in.sid,
                                    slots |-> SlotsOf(req.kind, req.in.name, req.in.title)]]
  IN IF throws
     THEN Respond(req, 500, FALSE, "Cannot read properties of undefined", Undefined)
     ELSE IF getClientThrows
     THEN Respond(req, 500, FALSE,
                  "Groq client not initialized. Please configure GROQ_API_KEY.", Undefined)
     ELSE IssueCall(ready, "calling")

\* From the arrival of the request to its first await.
RouteReceive(r) ==
  /\ reqs[r].pc = "idle"
  /\ \E kind \in RouteKinds, sid \in SessionIds \cup {"none"}, jd \in RouteJdLengths,
        name \in CompanyNames, title \in JobTitles, tavily \in BOOLEAN :
       LET company == kind \in {"generate-specific-cover-letter", "generate-interview-prep"}
                        /\ Truthy(name)
           req == [reqs[r] EXCEPT !.kind = kind,
                     !.in = [sid |-> sid, jd |-> jd, company |-> company, tavily |-> tavily,
                             name |-> name, title |-> title]]
       IN /\ kind = "optimize-resume" => name = Undefined
          /\ kind # "generate-cover-letter" => title = Undefined
          /\ ~company => ~tavily
          /\ IF kind = "generate-cover-letter" /\ (sid = "none" \/ jd = 0)
             THEN /\ Advance(r, Respond(req, 400, FALSE, "Session and JD required", Undefined))
                  /\ lastOp' = NoOp
             ELSE /\ lastOp' = StoreOp("get", sid, <<>>)
                  /\ Advance(r,
                       IF ~Has(sessions, sid)
                       THEN NotFound(req, "Session not found")
                       ELSE IF company /\ tavily
                       THEN [req EXCEPT !.pc = "researching",
                                        !.loc = [via |-> "tavily", session |-> sessions[sid]]]
                       ELSE IF company /\ ~getClientThrows
                       THEN IssueCall([req EXCEPT !.loc = [via |-> "groq",
                                                           session |-> sessions[sid]]],
                                      "researching")
                       ELSE IF kind \in {"generate-specific-cover-letter",
                                         "generate-interview-prep"}
                       THEN RouteStart([req EXCEPT !.loc = [research |-> 100]], sessions[sid])
                       ELSE RouteStart(req, sessions[sid]))
  /\ UNCHANGED <<sessions, config>>

\* researchCompany returns (it catches every failure), or falls back from the
\* search to the provider; then the generator starts on the session object the
\* handler read at its arrival.
RouteResearched(r) ==
  /\ reqs[r].pc = "researching"
  /\ reqs[r].kind \in RouteKinds
  /\ \E fallback \in BOOLEAN, len \in ResearchLengths :
       Advance(r,
         IF reqs[r].loc.via = "tavily" /\ fallback /\ ~getClientThrows
         THEN IssueCall([reqs[r] EXCEPT !.loc = [via |-> "groq",
                                                 session |-> reqs[r].loc.session]],
                        "researching")
         ELSE RouteStart([reqs[r] EXCEPT !.loc = [research |-> len]],
                         reqs[r].loc.session))
  /\ lastOp' = NoOp
  /\ UNCHANGED <<sessions, config>>

\* The provider call of the generator rejects.
RouteCallFailed(r) ==
  /\ reqs[r].pc = "calling"
  /\ reqs[r].kind \in RouteKinds
  /\ Advance(r, Respond(reqs[r], 500, FALSE, "provider error", Undefined))
  /\ lastOp' = NoOp
  /\ UNCHANGED <<sessions, config>>

\* The completion is there: the generator returns or throws and the route
\* answers.
RouteCompleted(r) ==
  /\ reqs[r].pc = "calling"
  /\ reqs[r].kind \in RouteKinds
  /\ \E text \in RouteTexts :
       LET out == ServiceOutcome([reqs[r] EXCEPT !.kind = RouteFunction(reqs[r].kind)], text)
       IN Advance(r, [out EXCEPT !.kind = reqs[r].kind,
                                 !.status = IF out.success THEN 200 ELSE 500])
  /\ lastOp' = NoOp
  /\ UNCHANGED <<sessions, config>>

NextRoutes ==
  \/ \E id \in SessionIds : Delete(id)
  \/ ApiExtractReceive(AnalyzeSlot)
  \/ ApiParseFailed(AnalyzeSlot)
  \/ ApiExtractParsed(AnalyzeSlot)
  \/ ApiExtractProfiled(AnalyzeSlot)
  \/ ApiAnalyzeReceive(AnalyzeSlot)
  \/ ApiAnalyzeParsed(AnalyzeSlot)
  \/ ApiAnalyzeProfiled(AnalyzeSlot)
  \/ ApiAnalyzeCallFailed(AnalyzeSlot)
  \/ ApiAnalyzeCompleted(AnalyzeSlot)
  \/ RouteReceive(AnalyzeSlot)
  \/ RouteResearched(AnalyzeSlot)
  \/ RouteCallFailed(AnalyzeSlot)
  \/ RouteCompleted(AnalyzeSlot)

SpecRoutes == Init /\ [][NextRoutes]_vars

(***************************************************************************)
(* Properties.                                                             *)
(***************************************************************************)
\* C1 (SpecStore): update(id, p) on a stored session s leaves a session in
\* which every top-level field named in p has p's value and every top-level
\* field of s not named in p keeps the value it had in s.
C1_UpdateIsShallowMerge ==
  [][ (lastOp'.op = "update" /\ Has(sessions, lastOp'.id)) =>
        LET s == sessions[lastOp'.id]
            p == lastOp'.data
        IN /\ Has(sessions', lastOp'.id)
           /\ \A f \in DOMAIN p :
                f \in DOMAIN sessions'[lastOp'.id] /\ sessions'[lastOp'.id][f] = p[f]
           /\ \A f \in (DOMAIN s) \ (DOMAIN p) :
                f \in DOMAIN sessions'[lastOp'.id] /\ sessions'[lastOp'.id][f] = s[f] ]_vars

\* update(id, {jobs: J}) has run on a session {profile: P}.
C1_Witness ==
  /\ lastOp.op = "update"
  /\ lastOp.data = [jobs |-> JobsJ]
  /\ Has(sessions, lastOp.id)
  /\ sessions[lastOp.id] = [profile |-> ProfileP, jobs |-> JobsJ]

\* The job ids of a tracked list, and of the list of session sid.
JobIds(list) == {IdOf(list[i]) : i \in 1..Len(list)}

Tracked(sid) == IF Has(sessions, sid) THEN JobIds(SavedJobsOf(sessions[sid])) ELSE {}

\* C2 as amended (SpecIndex): no save-job is lost; the tracked list of a
\* session holds the job of every save-job request on it that was answered
\* with success, in every interleaving of the requests.
C2_NoSaveIsLost == \A a \in acked : a.id \in Tracked(a.sid)

\* Two save-job requests for different jobs of one session waited together
\* and both have been answered with success.
C2_Witness ==
  /\ resp.kind = "save-job"
  /\ resp.success
  /\ \A r \in ReqIds : reqs[r].pc = "idle"
  /\ \E a \in acked :
       /\ a.sid = resp.in.sid
       /\ a.id \in resp.loc.rivals
       /\ {a.id, IdOf(resp.in.job)} \subseteq Tracked(a.sid)

\* C2 as stated (SpecIndex): when two save-job requests for different jobs
\* of one session race and both are answered with success, the tracked list
\* holds only one of the two jobs.
C2_ConcurrentSaveLosesUpdate ==
  \A a \in acked :
    (/\ resp.kind = "save-job"
     /\ resp.success
     /\ a.sid = resp.in.sid
     /\ a.id \in resp.loc.rivals)
    => ~({a.id, IdOf(resp.in.job)} \subseteq Tracked(a.sid))

\* C3 (Spec): a stored session stays stored through every step but
\* delete(id) of its own id; set(id, v) and update(id, p) leave id stored,
\* delete(id) leaves it absent, and an absent id becomes stored only by a set
\* or update of that id.
C3_NoImplicitRemoval ==
  [][ /\ \A id \in SessionIds :
           /\ (Has(sessions, id) /\ ~Has(sessions', id))
                => (lastOp'.op = "delete" /\ lastOp'.id = id)
           /\ (~Has(sessions, id) /\ Has(sessions', id))
                => (lastOp'.op \in {"set", "update"} /\ lastOp'.id = id)
      /\ lastOp'.op \in {"set", "update"} => Has(sessions', lastOp'.id)
      /\ lastOp'.op = "delete" => ~Has(sessions', lastOp'.id) ]_vars

\* A session created by an upload is found by a later analyze-match while
\* the other id is not stored.
C3_Witness ==
  /\ resp.kind = "api-analyze-match"
  /\ resp.status = 200
  /\ ~resp.in.hasFile
  /\ Has(sessions, resp.in.sid)
  /\ "uploadedAt" \in DOMAIN sessions[resp.in.sid]
  /\ \E id \in SessionIds \ {resp.in.sid} : ~Has(sessions, id)

\* C4 (Spec, routes/api.ts): an analyze-match request whose job description
\* is shorter than 50 characters is rejected before any provider call.
C4_ShortJobDescriptionRejected ==
  /\ \A r \in ReqIds :
       (reqs[r].kind = "api-analyze-match" /\ reqs[r].in.jd < MinJobDescriptionLength)
         => reqs[r].calls = 0
  /\ (resp.kind = "api-analyze-match" /\ resp.in.jd < MinJobDescriptionLength)
       => (resp.calls = 0 /\ ~resp.success)

\* C5 (SpecAnalyze): without a provider credential no request ends in a
\* success response.
C5_NoCredentialNoSuccess == ~credential => ~resp.success

\* The parsed object a successful response of the stand-alone analyze-match
\* was built from, when the provider was called.
Normalized == resp.kind = "analyze-match" /\ resp.success /\ "analysis" \in DOMAIN resp.loc

\* An integer within 0..100.
IsScore(v) ==
  /\ v.t = "num"
  /\ ~v.nan
  /\ v.x10 % 10 = 0
  /\ v.x10 >= 10 * ScoreMin
  /\ v.x10 <= 10 * ScoreMax

\* The three score fields: what the model returned, what the result holds.
ScorePairs(analysis, result) ==
  { <<OptGet(analysis, "overallScore"), result.o.overallScore>>,
    <<OptGet(OptGet(analysis, "atsAnalysis"), "score"), result.o.atsAnalysis.o.score>>,
    <<OptGet(OptGet(analysis, "interviewProbability"), "percentage"),
      result.o.interviewProbability.o.percentage>> }

\* C6 (SpecAnalyze): whatever the model returned for overallScore,
\* atsAnalysis.score and interviewProbability.percentage, the field of the
\* result is an integer in 0..100; 137 gives 100 and -20 gives 0.
C6_ScoresClamped ==
  Normalized =>
    \A p \in ScorePairs(resp.loc.analysis, resp.data) :
      /\ IsScore(p[2])
      /\ p[1] = JsNum(137) => p[2] = JsNum(100)
      /\ p[1] = JsNum(-20) => p[2] = JsNum(0)

\* The model returned 137 for a score and -20 or nothing for the others.
C6_Witness ==
  /\ Normalized
  /\ \E p \in ScorePairs(resp.loc.analysis, resp.data) :
       p[1] = JsNum(137) /\ p[2] = JsNum(100)
  /\ \E p \in ScorePairs(resp.loc.analysis, resp.data) : p[1] = Undefined

\* The result in which every declared field has its default.
DefaultResult ==
  JsObj([
    overallScore |-> JsNum(50),
    verdict |-> JsStr(<<"Analysis Complete">>),
    summary |-> JsStr(<<>>),
    sixSecondScan |-> JsObj([
      firstImpression |-> JsStr(<<>>),
      standoutElements |-> JsList(<<>>),
      immediateRedFlags |-> JsList(<<>>),
      wouldReadMore |-> Null,
      whyOrWhyNot |-> JsStr(<<>>)]),
    atsAnalysis |-> JsObj([
      score |-> JsNum(50),
      likelyToPass |-> Null,
      keywordsFound |-> JsList(<<>>),
      criticalKeywordsMissing |-> JsList(<<>>),
      suggestionToPassATS |-> JsStr(<<>>)]),
    qualificationGap |-> JsObj([
      experienceRequired |-> JsStr(<<>>),
      experienceYouHave |-> JsStr(<<>>),
      gapAssessment |-> JsStr(<<"Unknown">>),
      yearsGap |-> JsStr(<<>>),
      canYouCloseGap |-> Null,
      howToCloseGap |-> JsStr(<<>>)]),
    dealbreakers |-> JsList(<<>>),
    strengths |-> JsList(<<>>),
    hiddenRedFlags |-> JsList(<<>>),
    competitorAnalysis |-> JsObj([
      typicalWinningCandidate |-> JsStr(<<>>),
      howYouCompare |-> JsStr(<<>>),
      yourCompetitiveAdvantage |-> JsStr(<<>>),
      yourBiggestDisadvantage |-> JsStr(<<>>)]),
    applicationStrategy |-> JsObj([
      shouldYouApply |-> JsBool(TRUE),
      confidenceLevel |-> JsStr(<<"MEDIUM">>),
      bestApproach |-> JsStr(<<"APPLY_NOW">>),
      timeWorthInvesting |-> JsStr(<<>>),
      alternativeStrategy |-> JsStr(<<>>)]),
    resumeRewrites |-> JsList(<<>>),
    prioritizedActionPlan |-> JsObj([
      before_applying |-> JsList(<<>>),
      quick_wins |-> JsList(<<>>),
      worth_the_effort |-> JsList(<<>>),
      long_term |-> JsList(<<>>)]),
    interviewProbability |-> JsObj([
      percentage |-> JsNum(30),
      reasoning |-> JsStr(<<>>),
      whatWouldIncreaseOdds |-> JsStr(<<>>)]),
    bottomLine |-> JsObj([
      honestAssessment |-> JsStr(<<>>),
      oneThingToFix |-> JsStr(<<>>),
      encouragement |-> JsStr(<<>>)])])

\* Every declared field of result is present and not undefined, in the
\* result and in each of its sections.
FullyPopulated(result) ==
  /\ result.t = "obj"
  /\ DOMAIN result.o = DOMAIN DefaultResult.o
  /\ \A f \in DOMAIN result.o : result.o[f] # Undefined
  /\ \A sec \in SectionFields :
       /\ result.o[sec].t = "obj"
       /\ DOMAIN result.o[sec].o = DOMAIN DefaultResult.o[sec].o
       /\ \A f \in DOMAIN result.o[sec].o : result.o[sec].o[f] # Undefined

\* C7 (SpecAnalyze): the result built from the parsed object {} has every
\* declared field, those of the nested sections included, present with its
\* default; none is undefined or absent.
C7_EmptyObjectFullyDefaulted ==
  (Normalized /\ resp.loc.analysis = EmptyAnalysis) =>
    (FullyPopulated(resp.data) /\ resp.data = DefaultResult)

\* The model returned {} and the request was answered with success.
C7_Witness ==
  /\ Normalized
  /\ resp.loc.analysis = EmptyAnalysis
  /\ resp.status = 200
  /\ resp.calls = 1

\* C8 (SpecAnalyze): the result built from a parsed object that matches the
\* schema exactly equals that object field by field.
C8_IdentityOnValid ==
  (Normalized /\ resp.loc.analysis \in ValidAnalyses) => resp.data = resp.loc.analysis

\* A Canonical Result: every declared field present, the scores integers in
\* 0..100, at most 3 rewrites.
IsCanonical(a) ==
  /\ a.t = "obj"
  /\ DOMAIN DefaultResult.o \subseteq DOMAIN a.o
  /\ \A sec \in SectionFields :
       /\ a.o[sec].t = "obj"
       /\ DOMAIN DefaultResult.o[sec].o \subseteq DOMAIN a.o[sec].o
  /\ \A p \in ScorePairs(a, a) : IsScore(p[2])
  /\ a.o.resumeRewrites.t = "list"
  /\ Len(a.o.resumeRewrites.l) <= RewriteLimit

\* C9 (Spec): the analysis that POST /analyze-match of routes/api.ts returns
\* is a Canonical Result.
C9_ApiAnalysisIsCanonical ==
  (resp.kind = "api-analyze-match" /\ resp.success) => IsCanonical(resp.data.analysis)

\* C10 (SpecAnalyze): resumeRewrites of the result is the first min(3, n)
\* entries of the model's n-entry list, in the model's order.
C10_FirstThreeRewrites ==
  (Normalized /\ OptGet(resp.loc.analysis, "resumeRewrites").t = "list") =>
    LET l == OptGet(resp.loc.analysis, "resumeRewrites").l
        out == resp.data.o.resumeRewrites
    IN /\ out.t = "list"
       /\ Len(out.l) = (IF Len(l) < 3 THEN Len(l) ELSE 3)
       /\ \A i \in 1..Len(out.l) : out.l[i] = l[i]

\* The model returned 7 rewrites, not in ascending order, and the result
\* holds the first 3.
C10_Witness ==
  /\ Normalized
  /\ OptGet(resp.loc.analysis, "resumeRewrites") = ReversedRewriteList(7)
  /\ resp.data.o.resumeRewrites = JsList(<<RewriteEntry(7), RewriteEntry(6), RewriteEntry(5)>>)

\* The first position of character c in text and the last one (0 for none).
FirstIndexOf(text, c) ==
  IF \E i \in 1..Len(text) : text[i] = c
  THEN CHOOSE i \in 1..Len(text) : text[i] = c /\ \A k \in 1..(i - 1) : text[k] # c
  ELSE 0

LastIndexOf(text, c) ==
  IF \E i \in 1..Len(text) : text[i] = c
  THEN CHOOSE i \in 1..Len(text) : text[i] = c /\ \A k \in (i + 1)..Len(text) : text[k] # c
  ELSE 0

\* A function that extracts JSON has seen its completion.
Extracted ==
  /\ resp.kind \in ServiceKinds
  /\ ShapeOf(resp.kind).open # ""
  /\ "text" \in DOMAIN resp.loc

\* The completion holds an opening character of the shape with a closing
\* character somewhere after it.
HasPair(text, open, close) ==
  \E i \in 1..Len(text) : text[i] = open /\ \E j \in (i + 1)..Len(text) : text[j] = close

\* C11 (SpecService): when the completion text holds an opening character of
\* the requested shape followed later by a closing character, the substring
\* handed to the JSON parser runs from the first opening character of the
\* text to the last closing character of the text, whether or not the
\* brackets between them balance.
C11_GreedyOuterMatch ==
  (Extracted /\ HasPair(resp.loc.text, ShapeOf(resp.kind).open, ShapeOf(resp.kind).close)) =>
    resp.loc.handed =
      SubSeq(resp.loc.text,
             FirstIndexOf(resp.loc.text, ShapeOf(resp.kind).open),
             LastIndexOf(resp.loc.text, ShapeOf(resp.kind).close))

\* An array-shaped completion with a closing bracket inside: the parser got
\* everything from the first "[" to the last "]" and rejected it.
C11_Witness ==
  /\ Extracted
  /\ resp.kind = "generateInterviewPrep"
  /\ resp.loc.text = <<"prose", "[", "members", "]", "prose", "]">>
  /\ resp.loc.handed = <<"[", "members", "]", "prose", "]">>
  /\ resp.error = "SyntaxError"

\* The stand-alone analyze-match failed on a completion whose outermost
\* braces enclose text that does not parse.
MalformedJsonFailure ==
  /\ resp.kind = "analyze-match"
  /\ ~resp.success
  /\ "responseText" \in DOMAIN resp.loc
  /\ HasPair(resp.loc.responseText, "{", "}")

\* C12 (SpecAnalyze): the error of a request that failed on malformed JSON
\* differs from the error the same request gets when the completion holds no
\* opening/closing pair, so the caller can tell the two outcomes apart.
C12_ExtractionFailuresDistinct ==
  MalformedJsonFailure =>
    \A t \in CompletionTexts :
      ~HasPair(t, "{", "}") =>
        AnalyzeOutcome(resp, [text |-> t, obj |-> EmptyAnalysis]).error # resp.error

\* C13 (SpecService): a function returns a value only when its provider call
\* returned a completion and, for the functions that extract JSON, the
\* extracted text parsed; after a failed call, a missing pair or malformed
\* JSON the invocation fails.
C13_NoSubstituteData ==
  (resp.kind \in ServiceKinds /\ resp.calls > 0 /\ resp.success) =>
    /\ "text" \in DOMAIN resp.loc
    /\ ShapeOf(resp.kind).open # "" => IsJsonText(resp.loc.handed)

\* The requests that arrived in a step: the one the step answered at once, or
\* the one it left suspended in a slot that was free.
Arrivals ==
  (IF resp' # NoResponse /\ reqs' = reqs THEN {resp'} ELSE {})
  \cup {reqs'[r] : r \in {q \in ReqIds : reqs[q].pc = "idle" /\ reqs'[q].pc # "idle"}}

\* A request of a session-reading route, valid but for its session id, which
\* names an id of the store.
NamesSession(req) ==
  /\ req.kind \in RouteKinds \cup {"api-analyze-match"}
  /\ req.in.sid \in SessionIds
  /\ req.kind = "api-analyze-match" => ~req.in.hasFile
  /\ req.kind \in {"api-analyze-match", "generate-cover-letter"} => req.in.jd > 0

\* C14 (SpecRoutes): a request to analyze-match without a file,
\* generate-cover-letter, generate-specific-cover-letter,
\* generate-interview-prep or optimize-resume that names a session id with no
\* stored value is answered 404 with a session-not-found error in the step in
\* which it arrives, with no provider call and the session table unchanged.
C14_SessionNotFound ==
  [][ \A req \in Arrivals :
        (NamesSession(req) /\ ~Has(sessions, req.in.sid))
        => (/\ resp' = req
            /\ resp'.status = 404
            /\ ~resp'.success
            /\ resp'.error \in {"Session not found",
                                "Session not found. Please upload resume again."}
            /\ resp'.calls = 0
            /\ sessions' = sessions) ]_vars

\* generate-interview-prep named a deleted session and was answered 404.
C14_Witness ==
  /\ resp.kind = "generate-interview-prep"
  /\ resp.status = 404
  /\ resp.in.sid \in SessionIds
  /\ ~Has(sessions, resp.in.sid)
  /\ \E id \in SessionIds : Has(sessions, id)

\* C15 (SpecService): in the prompt of every template each long free-text
\* input (resume, job description, company research) appears only as a prefix
\* of at most the template's maximum length, the greatest of which is the
\* 6000 characters of the profile extraction; no prompt holds such a field
\* whole when it is longer.
C15_PromptFieldsTruncated ==
  (resp.kind \in ServiceKinds /\ "prompt" \in DOMAIN resp.loc /\ resp.calls > 0)
  => \A f \in {"resume", "jd", "research"} :
       /\ resp.loc.prompt[f] <= ProfileResumeMax
       /\ resp.in[f] > ProfileResumeMax => resp.loc.prompt[f] < resp.in[f]

\* C16 (SpecService): one invocation of analyzeMatch, generateCoverLetter,
\* generateInterviewPrep or optimizeResume issues at most one provider call,
\* and a failed call is returned as a failure after that single attempt.
C16_AtMostOneCall ==
  /\ \A r \in ReqIds :
       reqs[r].kind \in {"analyzeMatch", "generateCoverLetter",
                         "generateInterviewPrep", "optimizeResume"}
       => reqs[r].calls <= 1
  /\ resp.kind \in {"analyzeMatch", "generateCoverLetter",
                    "generateInterviewPrep", "optimizeResume"}
     => /\ resp.calls <= 1
        /\ resp.error = "provider error" => (~resp.success /\ resp.calls = 1)

\* The provider call of optimizeResume failed and the failure was returned.
C16_Witness ==
  /\ resp.kind = "optimizeResume"
  /\ resp.error = "provider error"
  /\ ~resp.success
  /\ resp.calls = 1

\* C17 (SpecAnalyze): once the completion has yielded a parsed JSON object,
\* the analyze-match request ends in success with the normalized result,
\* whatever the fields of the object and their types.
C17_ParsedAlwaysSucceeds ==
  (resp.kind = "analyze-match" /\ "analysis" \in DOMAIN resp.loc)
  => (resp.success /\ resp.status = 200 /\ resp.data = Normalize(resp.loc.analysis))

\* C18 (SpecAnalyze): a list field of the parsed object (dealbreakers,
\* strengths, hiddenRedFlags, atsAnalysis.keywordsFound) that is present as a
\* string or a number is replaced by the empty list in the result.
C18_WrongShapeDefaulted ==
  Normalized
  => /\ \A f \in ListFields :
          OptGet(resp.loc.analysis, f).t \in {"str", "num"}
          => resp.data.o[f] = EmptyList
     /\ OptGet(OptGet(resp.loc.analysis, "atsAnalysis"), "keywordsFound").t \in {"str", "num"}
        => resp.data.o.atsAnalysis.o.keywordsFound = EmptyList

UploadKinds == {"extract-profile", "api-analyze-match"}

\* C19 (Spec): an upload whose extracted text is shorter than the minimum
\* length is answered with a failure, with no provider call made and no
\* session stored.
C19_ShortTextRejected ==
  (/\ resp.kind \in UploadKinds
   /\ "resumeText" \in DOMAIN resp.loc
   /\ resp.loc.resumeText.len < MinResumeLength)
  => (~resp.success /\ resp.calls = 0 /\ lastOp.op # "set")

\* The upload in slot r as the step leaves it, once its text extraction and
\* profile extraction are over: answered, or calling the provider for the
\* analysis.
Uploaded(r) == IF reqs'[r].pc = "idle" THEN resp' ELSE reqs'[r]

\* C20 (Spec): when the text extraction of an upload (extract-profile, or
\* analyze-match with a file) has succeeded, then as soon as the profile
\* extraction is over, whether it gave a profile or not, the table holds under
\* the request's session id a session whose resumeText is the extracted text;
\* when the text extraction fails the table is left as it was.
C20_UploadStoresSession ==
  [][ \A r \in ReqIds :
        (/\ reqs[r].kind \in UploadKinds
         /\ reqs[r].pc \in {"parsing", "profiling"}
         /\ reqs'[r].pc \notin {"parsing", "profiling"})
        => IF "resumeText" \in DOMAIN Uploaded(r).loc
           THEN /\ Has(sessions', Uploaded(r).loc.sessionId)
                /\ "resumeText" \in DOMAIN sessions'[Uploaded(r).loc.sessionId]
                /\ sessions'[Uploaded(r).loc.sessionId].resumeText
                     = Uploaded(r).loc.resumeText
           ELSE sessions' = sessions ]_vars

\* extract-profile stored the text although its profile call gave no profile.
C20_Witness ==
  /\ resp.kind = "extract-profile"
  /\ resp.success
  /\ resp.calls = 1
  /\ resp.data.profile = EmptyProfile
  /\ Has(sessions, resp.loc.sessionId)
  /\ sessions[resp.loc.sessionId].resumeText = resp.loc.resumeText
  /\ lastOp.op = "set"

\* The length of interviewQuestions.
StandardQuestions == 20

\* The lengths the array literal sub can have: "members" stands for one or
\* more elements, a nested literal is one element.
ArrayLengths(sub) ==
  LET inner == SubSeq(sub, 2, Len(sub) - 1)
  IN IF inner = <<>> THEN {0}
     ELSE IF inner = <<"members">> THEN 1..(StandardQuestions + 1)
     ELSE {1}

\* C21 (SpecService): every successful result of generateInterviewPrep is a
\* list of exactly 20 entries, one per standard question, whatever JSON array
\* the model returned.
C21_TwentyEntries ==
  (resp.kind = "generateInterviewPrep" /\ resp.success)
  => ArrayLengths(resp.data.parsed) = {StandardQuestions}

\* The placeholder phrases.
TheCompany == JsStr(<<"the company">>)

ThePosition == JsStr(<<"the position">>)

\* C22 (SpecRoutes): in the prompt a cover-letter or interview-prep route sends
\* to the provider, the place of the company name holds "the company" when the
\* request has no company name and the place of the job title "the position"
\* when it has no title; neither place ever holds an empty or missing value.
C22_PlaceholderPhrases ==
  \A r \in ReqIds :
    (/\ reqs[r].kind \in RouteKinds \ {"optimize-resume"}
     /\ reqs[r].pc = "calling")
    => LET slots == reqs[r].loc.slots
       IN /\ ~Truthy(reqs[r].in.name) => slots.company = TheCompany
          /\ slots.company \notin {EmptyString, JsStr(<<"undefined">>)}
          /\ "title" \in DOMAIN slots
             => /\ ~Truthy(reqs[r].in.title) => slots.title = ThePosition
                /\ slots.title \notin {EmptyString, JsStr(<<"undefined">>)}

\* C23 (SpecStore): update(id, p) on an id that has no stored session creates
\* one whose top-level fields are exactly those of p, which is what get(id)
\* then returns and what update returned.
C23_UpdateCreates ==
  [][ (lastOp'.op = "update" /\ ~Has(sessions, lastOp'.id)) =>
        /\ Has(sessions', lastOp'.id)
        /\ DOMAIN sessions'[lastOp'.id] = DOMAIN lastOp'.data
        /\ sessions'[lastOp'.id] = lastOp'.data
        /\ lastOp'.ret = sessions'[lastOp'.id] ]_vars

\* update(id, {jobs: J}) has run on an id without a session, another id having
\* one.
C23_Witness ==
  /\ lastOp.op = "update"
  /\ lastOp.created
  /\ lastOp.data = [jobs |-> JobsJ]
  /\ sessions[lastOp.id] = [jobs |-> JobsJ]
  /\ \E id \in SessionIds \ {lastOp.id} : Has(sessions, id)

\* The fields of a tracked entry a save-job request with this job and status
\* sends or stamps.
SentFields(job, status) ==
  (DOMAIN job) \cup {"updatedAt"} \cup (IF status = "undefined" THEN {} ELSE {"status"})

\* C24 (SpecIndex): the tracked list holds at most one entry per job id; a
\* save-job for a tracked id updates that entry in place (same position, same
\* length, the other entries and the fields the request did not send kept),
\* and one for a new id appends one entry at the end, with status SAVED when
\* the request gives none.
C24_SaveJobUpserts ==
  [][ (resp'.kind = "save-job" /\ resp'.success) =>
        LET sid == resp'.in.sid
            job == resp'.in.job
            status == resp'.in.status
            old == SavedJobsOf(sessions[sid])
            new == SavedJobsOf(sessions'[sid])
            i == FindIndex(old, IdOf(job))
        IN /\ \A a, b \in 1..Len(new) : IdOf(new[a]) = IdOf(new[b]) => a = b
           /\ i > 0 =>
                /\ Len(new) = Len(old)
                /\ \A k \in (1..Len(old)) \ {i} : new[k] = old[k]
                /\ IdOf(new[i]) = IdOf(job)
                /\ \A f \in (DOMAIN old[i]) \ SentFields(job, status) :
                     f \in DOMAIN new[i] /\ new[i][f] = old[i][f]
           /\ i = 0 =>
                /\ Len(new) = Len(old) + 1
                /\ SubSeq(new, 1, Len(old)) = old
                /\ IdOf(new[Len(new)]) = IdOf(job)
                /\ new[Len(new)].status = IF status = "undefined" THEN "SAVED" ELSE status ]_vars

\* C25 (SpecAnalyze): the temporary file of an analyze-match request that
\* arrived with an upload is deleted on every exit path of the handler: when
\* the request has been answered, whatever the answer, the file is gone.
C25_UploadDeleted ==
  (resp.kind = "analyze-match" /\ resp.in.hasFile) => resp.file = "deleted"

C27_SearchKeepsTracker ==
  [][ (resp'.kind = "search-jobs" /\ resp'.success) =>
        LET sid == resp'.in.sid
        IN /\ Has(sessions, sid) /\ Has(sessions', sid)
           /\ DOMAIN sessions'[sid] = (DOMAIN sessions[sid]) \cup {"jobs"}
           /\ \A f \in (DOMAIN sessions[sid]) \ {"jobs"} :
                sessions'[sid][f] = sessions[sid][f]
           /\ sessions'[sid].jobs = resp'.data.jobs
           /\ \A a \in acked' :
                Has(sessions', a.sid) /\ a.id \in JobIds(SavedJobsOf(sessions'[a.sid])) ]_vars

\* search-jobs has completed on a session whose tracked list grew by a
\* save-job, and has an entry changed by update-job-status, since the search
\* arrived.
C27_Witness ==
  /\ resp.kind = "search-jobs"
  /\ resp.success
  /\ Has(sessions, resp.in.sid)
  /\ resp.loc.tracked = 0
  /\ Len(SavedJobsOf(sessions[resp.in.sid])) = 2
  /\ \E k \in 1..2 : "notes" \in DOMAIN SavedJobsOf(sessions[resp.in.sid])[k]
  /\ Len(sessions[resp.in.sid].jobs) = 2

\* The fields of an entry update-job-status may assign.
StatusFields == {"status", "notes", "updatedAt", "appliedAt"}

\* C29 (SpecTracker): update-job-status changes at most the one tracked entry
\* whose id equals jobId, and of it only status, notes, updatedAt and, when
\* status is APPLIED, appliedAt; the length and order of the list, every other
\* entry and every other field of the session are unchanged, and when no
\* entry matches jobId the session is unchanged and the response still
\* reports success.
C29_UpdateStatusFrame ==
  [][ resp'.kind = "update-job-status" =>
        IF ~resp'.success
        THEN sessions' = sessions
        ELSE LET sid == resp'.in.sid
                 old == sessions[sid].savedJobs
                 new == sessions'[sid].savedJobs
                 i == FindIndex(old, resp'.in.jobId)
             IN /\ DOMAIN sessions' = DOMAIN sessions
                /\ \A id \in (DOMAIN sessions) \ {sid} : sessions'[id] = sessions[id]
                /\ DOMAIN sessions'[sid] = DOMAIN sessions[sid]
                /\ \A f \in (DOMAIN sessions[sid]) \ {"savedJobs"} :
                     sessions'[sid][f] = sessions[sid][f]
                /\ Len(new) = Len(old)
                /\ \A k \in (1..Len(old)) \ {i} : new[k] = old[k]
                /\ i = 0 => sessions' = sessions
                /\ i > 0 =>
                     /\ DOMAIN old[i] \subseteq DOMAIN new[i]
                     /\ (DOMAIN new[i]) \ (DOMAIN old[i]) \subseteq StatusFields
                     /\ \A f \in (DOMAIN old[i]) \ StatusFields : new[i][f] = old[i][f]
                     /\ new[i].status = resp'.in.status
                     /\ resp'.in.status # "APPLIED"
                          => ("appliedAt" \in DOMAIN new[i] <=> "appliedAt" \in DOMAIN old[i]) ]_vars

\* update-job-status has changed the second of two tracked entries.
C29_Witness ==
  /\ resp.kind = "update-job-status"
  /\ resp.success
  /\ Has(sessions, resp.in.sid)
  /\ Len(SavedJobsOf(sessions[resp.in.sid])) = 2
  /\ FindIndex(SavedJobsOf(sessions[resp.in.sid]), resp.in.jobId) = 2
  /\ SavedJobsOf(sessions[resp.in.sid])[2].status = "INTERVIEW"
  /\ SavedJobsOf(sessions[resp.in.sid])[1].status = "SAVED"

\* C28 (SpecStore): set, update and delete called with an id change neither
\* the presence nor the value of the session stored under any other id, and
\* get changes nothing in the store.
C28_OtherIdsUntouched ==
  [][ /\ lastOp'.op \in {"set", "update", "delete"} =>
           \A B \in SessionIds \ {lastOp'.id} :
             /\ Has(sessions', B) <=> Has(sessions, B)
             /\ Has(sessions, B) => StoreGet(sessions', B) = StoreGet(sessions, B)
      /\ lastOp'.op = "get" => sessions' = sessions ]_vars

\* delete(A) has removed A while another id still holds its two fields.
C28_Witness ==
  /\ lastOp.op = "delete"
  /\ ~Has(sessions, lastOp.id)
  /\ \E B \in SessionIds \ {lastOp.id} :
       StoreGet(sessions, B) = [profile |-> EmptyProfile, jobs |-> JobsJ]

\* C30 (SpecStore): after set(id, v) get(id) returns exactly v, so no field
\* of the session stored before is kept unless v has it, and a second
\* set(id, v) leaves the store as the first left it.
C30_SetReplaces ==
  [][ lastOp'.op = "set" =>
        /\ StoreGet(sessions', lastOp'.id) = lastOp'.data
        /\ DOMAIN sessions'[lastOp'.id] = DOMAIN lastOp'.data
        /\ StoreSet(sessions', lastOp'.id, lastOp'.data) = sessions' ]_vars

\* set(id, {profile: P}) has replaced a different session stored under id,
\* and only profile is stored there now.
C30_Witness ==
  /\ lastOp.op = "set"
  /\ "replaced" \in DOMAIN lastOp
  /\ lastOp.replaced
  /\ lastOp.data = [profile |-> ProfileP]
  /\ StoreGet(sessions, lastOp.id) = [profile |-> ProfileP]

====
